---- MODULE Spec2Model ----
(***************************************************************************)
(* Position-and-risk management core of the automated trading agent:       *)
(*   PositionManager  (position-manager.js, src/unnamed/part_004)          *)
(*   EnhancedTrader   (src/src/enhanced-trader.js)                         *)
(*                                                                         *)
(* Numbers.  Prices are whole dollars.  currentStopLoss is kept in         *)
(* thousandths of a dollar, so that entryPrice * 0.97, entryPrice * 1.001  *)
(* and highestPrice * 0.985 are exact integers.  profitPercent is never    *)
(* materialised: profitPercent >= t is (price - entry) * 100 >= t * entry  *)
(* (entry > 0).                                                            *)
(***************************************************************************)
EXTENDS Integers, Sequences, FiniteSets, TLC

VARIABLES
    positions,    \* PositionManager.positions : symbol -> position record
    disk,         \* contents of data/positions.json
    saveOk,       \* outcome of the latest writeFileSync in _savePositions
    last,         \* the latest call of the PositionManager's interface and its result
    tpReturned,   \* per symbol, per level: TAKE_PROFIT_Lk results since addPosition
    scen,         \* per symbol: how far the calls since addPosition follow Scenario
    isTrading,    \* EnhancedTrader.isTrading
    pc,           \* where the running cycle of EnhancedTrader.start is
    regime,       \* start: marketRegime
    holdings,     \* start: accountData.holdings
    idx,          \* manageExistingPositions: index of the next holding
    cycles,       \* cycles started so far
    broker,       \* the brokerage account: symbol -> orderable quantity
    bought,       \* symbol -> the quantity the holding was entered with
    lastOrder,    \* the placeOrder call of the latest step, if it made one
    tierSells,    \* per symbol, per tier: SELL orders accepted for the tier while
                  \* the holding is open and the quote stays at or above the tier
    sized,        \* the latest calculatePositionSize call: arguments and result
    gate,         \* the latest canAddPosition call: arguments and result
    buyingPower,  \* start: buyingPower
    candidates,   \* start: volatileStocks, the candidates of analyzeAndTrade
    cand,         \* analyzeAndTrade: index of the next candidate
    remainingBuyingPower,   \* analyzeAndTrade: remainingBuyingPower
    tradesExecuted,         \* analyzeAndTrade: tradesExecuted
    trigger,      \* the outcome of the latest start() call
    running,      \* start() calls past the guard that have not returned
    lastExit,     \* the way the latest cycle ended
    now,          \* the clock: minute of the day in New York
    boot,         \* the minute the process started at
    cache,        \* MarketRegimeFilter.cache
    lastRegime,   \* the latest getMarketRegime call: the fetches and the result
    determined,   \* the latest _determineRegime call: arguments and result
    mode,         \* config.trading.mode
    placed,       \* the latest KisApi.placeOrder call: arguments and what it did
    alive,        \* the process is running
    exitPath,     \* the shutdown path that ended the process
    pending,      \* executeSell: the SELL order placeOrder is awaited for
    scored,       \* the latest calculateScore call: arguments and result
    accessToken,  \* KisApi.accessToken
    tokenExpiry,  \* KisApi.tokenExpiry
    tokenFile,    \* contents of token.json
    lastAuth,     \* the latest getAuthToken call and what it did
    issued,       \* the latest token the server issued
    managed,      \* the latest iteration of manageExistingPositions: what it consulted and did
    sellOrders,   \* symbol -> SELL orders placed for the holding in the running cycle
    trader,       \* the Trader of trader.js: isTrading and where start() is
    unfilledOrder, \* an order older than five minutes that is open at the brokerage
    starts,       \* calls of Trader.start past the guard
    legacyTrades, \* orders of Trader.start that placeOrder accepted
    filterState,  \* filterByVolatility: the batch loop and the fetches in flight
    advised,      \* the latest getRecommendation or checkSellSignal call and its answer
    attempts      \* symbol -> the latest iteration of manageExistingPositions that got a quote, where kept

pmVars == <<positions, disk, saveOk, last, tpReturned, scen>>

sizeVars == <<sized, gate>>

buyVars == <<buyingPower, candidates, cand, remainingBuyingPower, tradesExecuted>>

tradeVars == <<isTrading, pc, regime, holdings, idx, cycles, broker, bought,
               lastOrder, tierSells, buyVars, trigger, running, lastExit>>

guardVars == <<trigger, running, lastExit>>

regimeVars == <<now, boot, cache, lastRegime, determined>>

orderVars == <<mode, placed>>

retryVars == <<attempts>>

adviceVars == <<advised>>

filterVars == <<filterState>>

legacyVars == <<trader, unfilledOrder, starts, legacyTrades>>

manageVars == <<managed, sellOrders>>

apiVars == <<accessToken, tokenExpiry, tokenFile, lastAuth, issued>>

scoreVars == <<scored>>

processVars == <<alive, exitPath, pending>>

traderVars == <<isTrading, pc, regime, holdings, idx, cycles, broker, bought,
                lastOrder, tierSells, sized, gate, buyingPower, candidates, cand,
                remainingBuyingPower, tradesExecuted, trigger, running, lastExit,
                now, boot, cache, lastRegime, determined, mode, placed,
          alive, exitPath, pending,
          scored,
          accessToken, tokenExpiry, tokenFile, lastAuth, issued,
          managed, sellOrders,
          trader, unfilledOrder, starts, legacyTrades,
          filterState,
          advised,
          attempts>>

vars == <<positions, disk, saveOk, last, tpReturned, scen, isTrading, pc, regime,
          holdings, idx, cycles, broker, bought, lastOrder, tierSells, sized, gate,
          buyingPower, candidates, cand, remainingBuyingPower, tradesExecuted, trigger,
          running, lastExit, now, boot, cache, lastRegime, determined, mode, placed,
          alive, exitPath, pending,
          scored,
          accessToken, tokenExpiry, tokenFile, lastAuth, issued,
          managed, sellOrders,
          trader, unfilledOrder, starts, legacyTrades,
          filterState,
          advised,
          attempts>>

(***************************************************************************)
(* Configuration (PositionManager constructor)                             *)
(***************************************************************************)
ActivationProfit == 2        \* trailingStop.activationProfit: 2.0 %
TrailingPermille == 15       \* trailingStop.trailingPercent: 1.5 % = 15 per mille
InitialStopLoss == -3        \* trailingStop.initialStopLoss: -3.0 %
BreakEvenMove == 1           \* trailingStop.breakEvenMove: 1.0 %
BreakEvenPermille == 1001    \* entryPrice * 1.001

\* takeProfit.level1..level3 : { percent, sellPercent }
TakeProfit ==
    [k \in {1, 2, 3} |->
        CASE k = 1 -> [percent |-> 3, sellPercent |-> 30]
          [] k = 2 -> [percent |-> 5, sellPercent |-> 30]
          [] k = 3 -> [percent |-> 10, sellPercent |-> 40]]

DefaultScore == 50           \* addPosition(symbol, entryPrice, quantity, score = 50)

(***************************************************************************)
(* Bounds of the model                                                     *)
(***************************************************************************)
Symbols == {"AAPL", "MSFT"}
EntryPrices == {100}
Prices == {97, 98, 100, 101, 102, 103, 105, 110}
StorePrices == {97, 102, 110}     \* enough to take every return path of updatePrice
Times == {0}                      \* values of Date.now()
Quantities == {10}
Scores == {DefaultScore}

Min(a, b) == IF a <= b THEN a ELSE b

(***************************************************************************)
(* Persistence: _savePositions / _loadPositions                            *)
(***************************************************************************)
\* JSON.stringify(this.positions): one member per key, the record's fields in
\* insertion order.
JsonStringify(map) ==
    { <<s, <<map[s].symbol, map[s].entryPrice, map[s].quantity, map[s].score,
             map[s].entryTime, map[s].highestPrice, map[s].lowestPrice,
             map[s].trailingStopActive, map[s].currentStopLoss,
             map[s].takeProfitLevelsHit>> >> : s \in DOMAIN map }

\* JSON.parse(data)
JsonParse(text) ==
    [s \in { m[1] : m \in text } |->
        LET v == (CHOOSE m \in text : m[1] = s)[2]
        IN  [symbol |-> v[1], entryPrice |-> v[2], quantity |-> v[3],
             score |-> v[4], entryTime |-> v[5], highestPrice |-> v[6],
             lowestPrice |-> v[7], trailingStopActive |-> v[8],
             currentStopLoss |-> v[9], takeProfitLevelsHit |-> v[10]]]

NoFile == [exists |-> FALSE, text |-> {}]

\* _loadPositions: the parsed file, {} when there is none
LoadPositions(file) == IF file.exists THEN JsonParse(file.text) ELSE <<>>

\* The PositionManager's state as one value, so that calls compose.
PmState(pos, file, ok) == [positions |-> pos, disk |-> file, saveOk |-> ok]

\* _savePositions: writeFileSync of the whole map; a failure is caught and
\* logged, and leaves the file as it was.
SavePositions(pm, writeOk) ==
    IF writeOk
    THEN [pm EXCEPT !.disk = [exists |-> TRUE, text |-> JsonStringify(pm.positions)],
                    !.saveOk = TRUE]
    ELSE [pm EXCEPT !.saveOk = FALSE]

(***************************************************************************)
(* addPosition / removePosition / syncPositions                            *)
(***************************************************************************)
\* entryPrice * (1 + initialStopLoss / 100), in thousandths
InitialStopPrice(entryPrice) == entryPrice * (1000 + InitialStopLoss * 10)

NewPosition(symbol, entryPrice, quantity, score, time) ==
    [symbol |-> symbol, entryPrice |-> entryPrice, quantity |-> quantity,
     score |-> score, entryTime |-> time,
     highestPrice |-> entryPrice, lowestPrice |-> entryPrice,
     trailingStopActive |-> FALSE,
     currentStopLoss |-> InitialStopPrice(entryPrice),
     takeProfitLevelsHit |-> <<>>]

Put(map, symbol, rec) ==
    [s \in DOMAIN map \cup {symbol} |-> IF s = symbol THEN rec ELSE map[s]]

Delete(map, gone) == [s \in DOMAIN map \ gone |-> map[s]]

AddPosition(pm, symbol, entryPrice, quantity, score, time, writeOk) ==
    SavePositions(
        [pm EXCEPT !.positions =
            Put(pm.positions, symbol, NewPosition(symbol, entryPrice, quantity, score, time))],
        writeOk)

HasPosition(pm, symbol) == symbol \in DOMAIN pm.positions

RemovePosition(pm, symbol, writeOk) ==
    IF HasPosition(pm, symbol)
    THEN SavePositions([pm EXCEPT !.positions = Delete(pm.positions, {symbol})], writeOk)
    ELSE pm

\* held: the holdings argument of syncPositions, a list of holdings, null or
\* undefined.
IsList(held) == held.kind = "list"

\* (variant: only the first holding of the list is looked at)
HoldingSymbols_FirstOnly(held) ==
    { held.items[i].symbol : i \in 1..Min(1, Len(held.items)) }

\* new Set(holdings.map(h => h.symbol))
HoldingSymbols(held) == { held.items[i].symbol : i \in 1..Len(held.items) }

\* holdings.map(...) on null or undefined throws a TypeError before anything is
\* removed.
SyncThrows(held) == ~IsList(held)

SyncPositions(pm, held, writeOk) ==
    IF SyncThrows(held)
    THEN [pm |-> pm, threw |-> TRUE]
    ELSE LET stale == DOMAIN pm.positions \ HoldingSymbols(held)
         IN  [pm |-> IF stale # {}
                     THEN SavePositions([pm EXCEPT !.positions = Delete(pm.positions, stale)],
                                        writeOk)
                     ELSE pm,
              threw |-> FALSE]

(***************************************************************************)
(* updatePrice                                                             *)
(***************************************************************************)
\* profitPercent >= pct, profitPercent <= pct, with
\* profitPercent = ((currentPrice - entryPrice) / entryPrice) * 100
ProfitAtLeast(pos, price, pct) == (price - pos.entryPrice) * 100 >= pct * pos.entryPrice
ProfitAtMost(pos, price, pct) == (price - pos.entryPrice) * 100 <= pct * pos.entryPrice

\* (variant: the watermarks follow the latest price)
UpdateWatermarks_Latest(pos, price) ==
    [pos EXCEPT !.highestPrice = IF price > pos.entryPrice THEN price ELSE @,
                !.lowestPrice = IF price < pos.entryPrice THEN price ELSE @]

\* highestPrice / lowestPrice watermarks
UpdateWatermarks(pos, price) ==
    [pos EXCEPT !.highestPrice = IF price > @ THEN price ELSE @,
                !.lowestPrice = IF price < @ THEN price ELSE @]

\* (variant: the stop-loss compares with < instead of <=)
StopLossHit_Strict(pos, price) ==
    (price - pos.entryPrice) * 100 < InitialStopLoss * pos.entryPrice

\* 1. initial stop-loss check
StopLossHit(pos, price) == ProfitAtMost(pos, price, InitialStopLoss)

\* (variant: the break-even move without the currentStopLoss < entryPrice guard)
BreakEvenStep_Unguarded(pos, price) ==
    IF ProfitAtLeast(pos, price, BreakEvenMove)
    THEN [pos EXCEPT !.currentStopLoss = pos.entryPrice * BreakEvenPermille]
    ELSE pos

\* 2. break-even move
BreakEvenStep(pos, price) ==
    IF ProfitAtLeast(pos, price, BreakEvenMove)
       /\ pos.currentStopLoss < pos.entryPrice * 1000
    THEN [pos EXCEPT !.currentStopLoss = pos.entryPrice * BreakEvenPermille]
    ELSE pos

\* (variant: trailingStopActive recomputed on every update)
TrailingStep_Recomputed(pos, price) ==
    LET trailingStopPrice == pos.highestPrice * (1000 - TrailingPermille)
    IN  IF ProfitAtLeast(pos, price, ActivationProfit)
        THEN [pos EXCEPT !.trailingStopActive = TRUE,
                         !.currentStopLoss = IF trailingStopPrice > @
                                             THEN trailingStopPrice ELSE @]
        ELSE [pos EXCEPT !.trailingStopActive = FALSE]

\* (variant: activation compares with > instead of >=)
TrailingStep_StrictActivation(pos, price) ==
    IF (price - pos.entryPrice) * 100 > ActivationProfit * pos.entryPrice
    THEN LET trailingStopPrice == pos.highestPrice * (1000 - TrailingPermille)
         IN  [pos EXCEPT !.trailingStopActive = TRUE,
                         !.currentStopLoss = IF trailingStopPrice > @
                                             THEN trailingStopPrice ELSE @]
    ELSE pos

\* (variant: activation does not move the stop)
TrailingStep_NoRatchet(pos, price) ==
    IF ProfitAtLeast(pos, price, ActivationProfit)
    THEN [pos EXCEPT !.trailingStopActive = TRUE]
    ELSE pos

\* 3. trailing-stop activation and ratchet
TrailingStep(pos, price) ==
    IF ProfitAtLeast(pos, price, ActivationProfit)
    THEN LET trailingStopPrice == pos.highestPrice * (1000 - TrailingPermille)
         IN  [pos EXCEPT !.trailingStopActive = TRUE,
                         !.currentStopLoss = IF trailingStopPrice > @
                                             THEN trailingStopPrice ELSE @]
    ELSE pos

\* (variant: the stop triggers whether or not the trailing stop is active)
TrailingStopHit_AnyStop(pos, price) == price * 1000 <= pos.currentStopLoss

\* 4. trailing-stop trigger
TrailingStopHit(pos, price) ==
    pos.trailingStopActive /\ price * 1000 <= pos.currentStopLoss

Includes(seq, x) == \E i \in 1..Len(seq) : seq[i] = x

TakeProfitAction(k) ==
    CASE k = 1 -> "TAKE_PROFIT_L1" [] k = 2 -> "TAKE_PROFIT_L2" [] k = 3 -> "TAKE_PROFIT_L3"

\* (variant: the level fires without looking at takeProfitLevelsHit)
LevelFires_Unchecked(pos, price, k) ==
    ProfitAtLeast(pos, price, TakeProfit[k].percent)

\* a level fires when its threshold is reached and it is not yet in
\* takeProfitLevelsHit
LevelFires(pos, price, k) ==
    ProfitAtLeast(pos, price, TakeProfit[k].percent) /\ ~Includes(pos.takeProfitLevelsHit, k)

\* (variant: level 1 is tested first, then 2, then 3)
CheckTakeProfitLevels_Ascending(pos, price) ==
    LET fire(k) == [position |-> [pos EXCEPT !.takeProfitLevelsHit = Append(@, k)],
                    action |-> TakeProfitAction(k),
                    sellPercent |-> TakeProfit[k].sellPercent]
    IN  IF LevelFires(pos, price, 1) THEN fire(1)
        ELSE IF LevelFires(pos, price, 2) THEN fire(2)
        ELSE IF LevelFires(pos, price, 3) THEN fire(3)
        ELSE [position |-> pos, action |-> "HOLD", sellPercent |-> 0]

\* 5. _checkTakeProfitLevels: level 3 first, then 2, then 1; the level that
\* fires is pushed onto takeProfitLevelsHit
CheckTakeProfitLevels(pos, price) ==
    LET fire(k) == [position |-> [pos EXCEPT !.takeProfitLevelsHit = Append(@, k)],
                    action |-> TakeProfitAction(k),
                    sellPercent |-> TakeProfit[k].sellPercent]
    IN  IF LevelFires(pos, price, 3) THEN fire(3)
        ELSE IF LevelFires(pos, price, 2) THEN fire(2)
        ELSE IF LevelFires(pos, price, 1) THEN fire(1)
        ELSE [position |-> pos, action |-> "HOLD", sellPercent |-> 0]

\* updatePrice on the record of an existing position: the record afterwards,
\* result.action and result.sellPercent
UpdatePosition(pos, price) ==
    LET marked == UpdateWatermarks(pos, price)
    IN  IF StopLossHit(marked, price)
        THEN [position |-> marked, action |-> "STOP_LOSS", sellPercent |-> 0]
        ELSE LET moved == TrailingStep(BreakEvenStep(marked, price), price)
             IN  IF TrailingStopHit(moved, price)
                 THEN [position |-> moved, action |-> "TRAILING_STOP", sellPercent |-> 0]
                 ELSE CheckTakeProfitLevels(moved, price)

\* (variant: the stop-loss return path does not save)
SavesBeforeReturn_NotOnStopLoss(action) ==
    action \in {"TRAILING_STOP", "TAKE_PROFIT_L1", "TAKE_PROFIT_L2", "TAKE_PROFIT_L3", "HOLD"}

\* the return paths of updatePrice that call _savePositions first
SavesBeforeReturn(action) ==
    action \in {"STOP_LOSS", "TRAILING_STOP", "TAKE_PROFIT_L1", "TAKE_PROFIT_L2",
                "TAKE_PROFIT_L3", "HOLD"}

NullResult == [action |-> "null", sellPercent |-> 0]

\* (variant: the file is written on the null path too)
UpdatePrice_SavesOnNull(pm, symbol, price, writeOk) ==
    IF ~HasPosition(pm, symbol)
    THEN [pm |-> SavePositions(pm, writeOk), result |-> NullResult]
    ELSE LET r == UpdatePosition(pm.positions[symbol], price)
             updated == [pm EXCEPT !.positions[symbol] = r.position]
         IN  [pm |-> IF SavesBeforeReturn(r.action)
                     THEN SavePositions(updated, writeOk) ELSE updated,
              result |-> [action |-> r.action, sellPercent |-> r.sellPercent]]

UpdatePrice(pm, symbol, price, writeOk) ==
    IF ~HasPosition(pm, symbol)
    THEN [pm |-> pm, result |-> NullResult]
    ELSE LET r == UpdatePosition(pm.positions[symbol], price)
             updated == [pm EXCEPT !.positions[symbol] = r.position]
         IN  [pm |-> IF SavesBeforeReturn(r.action)
                     THEN SavePositions(updated, writeOk) ELSE updated,
              result |-> [action |-> r.action, sellPercent |-> r.sellPercent]]

(***************************************************************************)
(* calculatePositionSize / calculateTotalExposure / canAddPosition         *)
(*                                                                         *)
(* Numbers.  Capital, prices, values and ATR are whole dollars.  The       *)
(* regime multiplier is in thousandths and the ATR discount in quarters,   *)
(* so positionPercent is carried in units of 1/4000 percent.  A returned   *)
(* percentage is the exact fraction num / den.                             *)
(***************************************************************************)
MaxPositionPercent == 5      \* positionSizing.maxPositionPercent: 5.0 %
MinPositionPercent == 1      \* positionSizing.minPositionPercent: 1.0 %
MaxTotalExposure == 80       \* positionSizing.maxTotalExposure: 80.0 %
MaxPositionsCount == 20      \* positionSizing.maxPositionsCount
PercentUnit == 1000 * 4      \* units of positionPercent in one percent

Max(a, b) == IF a >= b THEN a ELSE b

\* (variant: the tiers start above their thresholds)
ScorePercent_Strict(score) ==
    IF score > 90 THEN MaxPositionPercent
    ELSE IF score > 80 THEN (MaxPositionPercent * 8) \div 10
    ELSE IF score > 70 THEN (MaxPositionPercent * 6) \div 10
    ELSE IF score > 60 THEN (MaxPositionPercent * 4) \div 10
    ELSE MinPositionPercent

\* 1. the base percentage for the score (scoreBasedSizing is true)
ScorePercent(score) ==
    IF score >= 90 THEN MaxPositionPercent
    ELSE IF score >= 80 THEN (MaxPositionPercent * 8) \div 10
    ELSE IF score >= 70 THEN (MaxPositionPercent * 6) \div 10
    ELSE IF score >= 60 THEN (MaxPositionPercent * 4) \div 10
    ELSE MinPositionPercent

\* 3. the ATR discount in quarters (0.5, 0.75, 1); atr = 0 is null (or 0): no
\* discount
AtrFactor(atr, currentPrice) ==
    IF atr # 0 /\ currentPrice # 0
    THEN IF atr * 100 > 5 * currentPrice THEN 2
         ELSE IF atr * 100 > 3 * currentPrice THEN 3
         ELSE 4
    ELSE 4

\* 4. Math.max(minPositionPercent, Math.min(maxPositionPercent, positionPercent))
ClampPercent(positionPercent) ==
    Max(MinPositionPercent * PercentUnit,
        Min(MaxPositionPercent * PercentUnit, positionPercent))

\* calculatePositionSize(totalCapital, currentPrice, score, regimeMultiplier, atr)
\* for currentPrice > 0 and totalCapital > 0
CalculatePositionSize(totalCapital, currentPrice, score, regimeMultiplier, atr) ==
    LET positionPercent ==
            ClampPercent(ScorePercent(score) * regimeMultiplier
                         * AtrFactor(atr, currentPrice))
        \* Math.floor(totalCapital * (positionPercent / 100) / currentPrice)
        quantity == ((totalCapital * positionPercent) \div (100 * PercentUnit))
                    \div currentPrice
        finalQuantity == Max(1, quantity)
        actualValue == finalQuantity * currentPrice
    IN  [quantity |-> finalQuantity, value |-> actualValue,
         percent |-> [num |-> actualValue * 100, den |-> totalCapital],
         score |-> score, regimeMultiplier |-> regimeMultiplier]

\* h.currentValue || (h.currentPrice * h.qty) || 0 : getBalance sets no
\* currentValue
HoldingValue(h) == h.currentPrice * h.qty

\* holdings.reduce((sum, h) => sum + ..., 0) over the first n holdings
RECURSIVE SumValues(_, _)
SumValues(held, n) ==
    IF n = 0 THEN 0 ELSE SumValues(held, n - 1) + HoldingValue(held[n])

TotalValue(held) == SumValues(held, Len(held))

\* totalExposure > maxTotalExposure, with
\* totalExposure = calculateTotalExposure(holdings, totalCapital)
\*                 + (newPositionValue / totalCapital) * 100.
\* With totalCapital = 0 the quotients are Infinity or NaN (0 / 0), and a
\* comparison with NaN is false.
ExposureExceeded(held, totalCapital, newPositionValue) ==
    IF totalCapital # 0
    THEN (TotalValue(held) + newPositionValue) * 100 > MaxTotalExposure * totalCapital
    ELSE /\ newPositionValue > 0
         /\ (Len(held) = 0 \/ TotalValue(held) > 0)

\* (variant: the count is compared with > instead of >=)
CountReached_Strict(held) == Len(held) > MaxPositionsCount

\* holdings.length >= config.maxPositionsCount
CountReached(held) == Len(held) >= MaxPositionsCount

\* canAddPosition(holdings, totalCapital, newPositionValue)
CanAddPosition(held, totalCapital, newPositionValue) ==
    IF CountReached(held)
    THEN [allowed |-> FALSE, reason |-> "Max positions"]
    ELSE IF ExposureExceeded(held, totalCapital, newPositionValue)
    THEN [allowed |-> FALSE, reason |-> "Max exposure"]
    ELSE [allowed |-> TRUE, reason |-> ""]

(***************************************************************************)
(* MarketRegimeFilter (src/src/market-regime-filter.js)                    *)
(*                                                                         *)
(* Numbers.  Time is the minute of the day in New York; the cache duration *)
(* of 5 * 60 * 1000 ms is 5 minutes.  positionSizeMultiplier is in         *)
(* thousandths and the trend factor in tenths, so every product is an      *)
(* integer (the doubles of the source differ from it by at most one unit   *)
(* in the last place: 0.75 * 1.2 is 0.8999999999999999).                   *)
(***************************************************************************)
CacheDuration == 5           \* cache.cacheDuration: 5 minutes
DefaultVix == 20             \* _getVIXData: { current: 20, ... } on error
FailSafeMultiplier == 500    \* getMarketRegime: positionSizeMultiplier: 0.5 on error
MinMultiplier == 200         \* _determineRegime: Math.max(0.2, ...)
MaxMultiplier == 2000        \* _determineRegime: Math.min(2.0, ...)

\* getTradingSession at minute t of the day
GetTradingSession(t) ==
    IF t >= 240 /\ t < 570 THEN "PREMARKET"
    ELSE IF t >= 570 /\ t < 630 THEN "OPENING"
    ELSE IF t >= 630 /\ t < 900 THEN "CORE"
    ELSE IF t >= 900 /\ t < 960 THEN "POWER_HOUR"
    ELSE IF t >= 960 /\ t < 1200 THEN "AFTERMARKET"
    ELSE "CLOSED"

\* the outcome of a fetch: failed, or the value fetched
FetchFailed == [failed |-> TRUE, value |-> 0, trend |-> ""]
VixQuote(v) == [failed |-> FALSE, value |-> v, trend |-> ""]
SpyHistory(trend) == [failed |-> FALSE, value |-> 0, trend |-> trend]

\* _getVIXData: the quote, or the default when the fetch throws
GetVIXData(fetch) == IF fetch.failed THEN DefaultVix ELSE fetch.value

\* _getSPYTrend: the trend of the history, or UNKNOWN when the fetch throws
GetSPYTrend(fetch) == IF fetch.failed THEN "UNKNOWN" ELSE fetch.trend

\* (variant: the multiplier is capped but not floored)
ClampMultiplier_NoFloor(m) == Min(MaxMultiplier, m)

\* Math.max(0.2, Math.min(2.0, positionSizeMultiplier))
ClampMultiplier(m) == Max(MinMultiplier, Min(MaxMultiplier, m))

\* _determineRegime(vixData, spyAnalysis, tradingSession)
DetermineRegime(vix, trend, session) ==
    LET fear == IF vix >= 30
                THEN [regime |-> "EXTREME_FEAR", allowBuy |-> FALSE, multiplier |-> 300]
                ELSE IF vix >= 25
                THEN [regime |-> "FEAR", allowBuy |-> TRUE, multiplier |-> 500]
                ELSE IF vix >= 20
                THEN [regime |-> "CAUTIOUS", allowBuy |-> TRUE, multiplier |-> 750]
                ELSE IF vix < 15
                THEN [regime |-> "GREED", allowBuy |-> TRUE, multiplier |-> 1200]
                ELSE [regime |-> "NEUTRAL", allowBuy |-> TRUE, multiplier |-> 1000]
        spy == IF trend = "BEARISH"
               THEN [regime |-> IF fear.regime # "EXTREME_FEAR" THEN "BEARISH"
                                ELSE fear.regime,
                     allowBuy |-> FALSE,
                     multiplier |-> (fear.multiplier * 5) \div 10]
               ELSE IF trend = "BULLISH"
               THEN [regime |-> IF fear.regime \in {"NEUTRAL", "GREED"} THEN "BULLISH"
                                ELSE fear.regime,
                     allowBuy |-> fear.allowBuy,
                     multiplier |-> (fear.multiplier * 12) \div 10]
               ELSE fear
        gated == IF session \in {"OPENING", "POWER_HOUR"}
                 THEN [allowBuy |-> FALSE, allowSell |-> TRUE]
                 ELSE IF session \in {"CLOSED", "PREMARKET"}
                 THEN [allowBuy |-> FALSE, allowSell |-> FALSE]
                 ELSE [allowBuy |-> spy.allowBuy, allowSell |-> TRUE]
    IN  [regime |-> spy.regime, vix |-> vix, spyTrend |-> trend,
         tradingSession |-> session,
         allowBuy |-> gated.allowBuy, allowSell |-> gated.allowSell,
         positionSizeMultiplier |-> ClampMultiplier(spy.multiplier)]

\* _analyzeMarketRegime
AnalyzeMarketRegime(vixFetch, spyFetch, time) ==
    DetermineRegime(GetVIXData(vixFetch), GetSPYTrend(spyFetch), GetTradingSession(time))

\* _analyzeMarketRegime throws: _getVIXData and _getSPYTrend catch every error
\* of their fetch and getTradingSession and _determineRegime do not throw
AnalyzeThrows(vixFetch, spyFetch) == FALSE

\* the fail-safe default of the catch block of getMarketRegime
FailSafeRegime(time) ==
    [regime |-> "NEUTRAL", vix |-> 0, spyTrend |-> "UNKNOWN",
     tradingSession |-> GetTradingSession(time),
     allowBuy |-> FALSE, allowSell |-> TRUE,
     positionSizeMultiplier |-> FailSafeMultiplier]

EmptyCache ==
    [filled |-> FALSE, lastUpdate |-> 0,
     regime |-> [regime |-> "", vix |-> 0, spyTrend |-> "", tradingSession |-> "",
                 allowBuy |-> FALSE, allowSell |-> FALSE, positionSizeMultiplier |-> 0]]

\* (variant: a snapshot of exactly five minutes still counts)
CacheHit_Inclusive(c, time) == c.filled /\ time - c.lastUpdate <= CacheDuration

\* the cache check of getMarketRegime
CacheHit(c, time) == c.filled /\ time - c.lastUpdate < CacheDuration

\* getMarketRegime at time, with the outcomes of the two fetches it may make:
\* the cache afterwards, the regime returned and where it came from
GetMarketRegime(c, time, vixFetch, spyFetch) ==
    IF CacheHit(c, time)
    THEN [cache |-> c, regime |-> c.regime, source |-> "cache"]
    ELSE IF AnalyzeThrows(vixFetch, spyFetch)
    THEN [cache |-> c, regime |-> FailSafeRegime(time), source |-> "default"]
    ELSE LET r == AnalyzeMarketRegime(vixFetch, spyFetch, time)
         IN  [cache |-> [filled |-> TRUE, lastUpdate |-> time, regime |-> r],
              regime |-> r, source |-> "fresh"]

(***************************************************************************)
(* KisApi.placeOrder (kis-api.js, src/unnamed/part_002)                    *)
(***************************************************************************)
\* the TR ID of an order for the trading mode and the side
OrderTrId(tradingMode, side) ==
    IF tradingMode = "REAL"
    THEN IF side = "BUY" THEN "TTTT1002U" ELSE "TTTT1006U"
    ELSE IF side = "BUY" THEN "VTTT1002U" ELSE "VTTT1006U"

\* placeOrder(symbol, side, qty, price) with the outcomes of getHeaders
\* (authOk), of getHashKey (hashOk) and of the POST of the order (postOk):
\* whether the order request was sent to baseUrl, with which TR ID and
\* hashkey, and whether response.data or null is returned
PlaceOrder(tradingMode, symbol, side, qty, price, authOk, hashOk, postOk) ==
    IF ~authOk
    THEN [transmitted |-> FALSE, trId |-> "", hashkey |-> FALSE, returned |-> "null"]
    ELSE [transmitted |-> TRUE, trId |-> OrderTrId(tradingMode, side),
          hashkey |-> hashOk,
          returned |-> IF postOk THEN "data" ELSE "null"]

(***************************************************************************)
(* EnhancedMultiFactorScreener (enhanced-multi-factor-screener.js,         *)
(* src/unnamed/part_000)                                                   *)
(*                                                                         *)
(* An argument that is null or undefined is a record with present = FALSE; *)
(* a moving average or a ratio that is undefined is 0.  pegRatio,          *)
(* atrPercent and volumeSpike are in tenths.                               *)
(***************************************************************************)
StrongBuyThreshold == 75
BuyThreshold == 60
SellThreshold == 25
StrongSellThreshold == 10

\* Math.max(lo, Math.min(hi, x))
Clamp(lo, hi, x) == Max(lo, Min(hi, x))

NoIndicators == [present |-> FALSE, ma5 |-> 0, ma10 |-> 0, ma20 |-> 0,
                 macd |-> FALSE, histogram |-> 0]

\* a > b for values of which either may be undefined
Above(a, b) == a # 0 /\ b # 0 /\ a > b

\* 1. technical score
TechnicalScore(technicalData) ==
    LET has(signal) == signal \in technicalData.signals
        macd == IF has("MACD_BULLISH") THEN 10
                ELSE IF has("MACD_REVERSAL") THEN 5
                ELSE IF has("MACD_BEARISH") THEN -10
                ELSE 0
        bb == IF has("BB_OVERSOLD") THEN 8
              ELSE IF has("BB_OVERBOUGHT") THEN -8
              ELSE 0
        rsi == IF has("RSI_OVERSOLD") THEN 7
               ELSE IF has("RSI_OVERBOUGHT") THEN -7
               ELSE 0
    IN  Clamp(-25, 25, IF technicalData.present THEN macd + bb + rsi ELSE 0)

\* 2. momentum score
MomentumScore(technicalData, multiTimeframeData) ==
    LET ind == technicalData.indicators
        alignment == IF "MA_UPTREND" \in technicalData.signals THEN 20
                     ELSE IF ind.present
                     THEN (IF Above(ind.ma5, ind.ma10) THEN 8 ELSE 0)
                          + (IF Above(ind.ma10, ind.ma20) THEN 7 ELSE 0)
                     ELSE 0
        histogram == IF ind.present /\ ind.macd
                     THEN (IF ind.histogram > 0 THEN 10
                           ELSE IF ind.histogram < 0 THEN -10
                           ELSE 0)
                     ELSE 0
        position == IF ind.present /\ ind.ma20 # 0
                    THEN (IF technicalData.currentPrice > ind.ma20 THEN 10 ELSE -10)
                    ELSE 0
        technical == IF technicalData.present THEN alignment + histogram + position
                     ELSE 0
        timeframes == IF ~multiTimeframeData.present THEN 0
                      ELSE IF multiTimeframeData.hourlyTrend = "UP"
                              /\ multiTimeframeData.dailyTrend = "UP" THEN 10
                      ELSE IF multiTimeframeData.hourlyTrend = "DOWN"
                              /\ multiTimeframeData.dailyTrend = "DOWN" THEN -10
                      ELSE 0
    IN  Clamp(-40, 40, technical + timeframes)

\* 3. fundamental score
FundamentalScore(fundamentalData) ==
    LET pe == fundamentalData.peRatio
        peg == fundamentalData.pegRatio
        pePoints == IF pe = 0 THEN 0
                    ELSE IF pe > 0 /\ pe < 20 THEN 5
                    ELSE IF pe >= 20 /\ pe < 35 THEN 3
                    ELSE 0
        pegPoints == IF peg = 0 THEN 0
                     ELSE IF peg > 0 /\ peg < 10 THEN 5
                     ELSE IF peg >= 10 /\ peg < 20 THEN 3
                     ELSE 0
    IN  Clamp(0, 10, IF fundamentalData.present THEN pePoints + pegPoints ELSE 0)

\* Math.round(x * tenths / 10): the nearest integer, a half rounded up
RoundTenths(x, tenths) == (x * tenths + 5) \div 10

\* 4. sentiment score
SentimentScore(newsData) ==
    LET base == IF newsData.sentiment = "POSITIVE" THEN 15
                ELSE IF newsData.sentiment = "NEGATIVE" THEN -15
                ELSE 0
        adjusted == IF newsData.headlineCount >= 5 THEN RoundTenths(base, 12)
                    ELSE IF newsData.headlineCount <= 1 THEN RoundTenths(base, 5)
                    ELSE base
    IN  Clamp(-15, 15, IF newsData.present THEN adjusted ELSE 0)

\* 5. volatility score
VolatilityScore(volatilityData) ==
    LET base == IF volatilityData.atrPercent >= 30 THEN 10
                ELSE IF volatilityData.atrPercent >= 20 THEN 7
                ELSE IF volatilityData.atrPercent >= 10 THEN 4
                ELSE 0
        spike == IF volatilityData.volumeSpike > 20 THEN 5 ELSE 0
    IN  Clamp(0, 10, IF volatilityData.present THEN base + spike ELSE 0)

\* (variant: the total is shifted but not clamped)
Normalize_Unclamped(totalScore) == totalScore + 50

\* Math.max(0, Math.min(100, totalScore + 50))
Normalize(totalScore) == Clamp(0, 100, totalScore + 50)

\* getRecommendation
GetRecommendation(score) ==
    IF score >= StrongBuyThreshold THEN "STRONG_BUY"
    ELSE IF score >= BuyThreshold THEN "BUY"
    ELSE IF score <= StrongSellThreshold THEN "STRONG_SELL"
    ELSE IF score <= SellThreshold THEN "SELL"
    ELSE "HOLD"

\* getConfidence
GetConfidence(score, technicalData, newsData) ==
    LET extreme == IF score >= 85 \/ score <= 15 THEN 20
                   ELSE IF score >= 75 \/ score <= 25 THEN 10
                   ELSE 0
        bullishSignals ==
            Cardinality(technicalData.signals
                        \cap {"MACD_BULLISH", "MA_UPTREND", "RSI_OVERSOLD", "BB_OVERSOLD"})
        bearishSignals ==
            Cardinality(technicalData.signals
                        \cap {"MACD_BEARISH", "RSI_OVERBOUGHT", "BB_OVERBOUGHT"})
        points(n) == IF n >= 3 THEN 15 ELSE IF n >= 2 THEN 10 ELSE 0
        agreement == IF technicalData.present
                     THEN points(bullishSignals) + points(bearishSignals) ELSE 0
        news == IF newsData.present /\ technicalData.present
                   /\ ((technicalData.score > 0) <=> (newsData.sentiment = "POSITIVE"))
                THEN 10 ELSE 0
    IN  Min(100, 50 + extreme + agreement + news)

\* calculateScore
CalculateScore(technicalData, fundamentalData, newsData, volatilityData, multiTimeframeData) ==
    LET technicalScore == TechnicalScore(technicalData)
        momentumScore == MomentumScore(technicalData, multiTimeframeData)
        fundamentalScore == FundamentalScore(fundamentalData)
        sentimentScore == SentimentScore(newsData)
        volatilityScore == VolatilityScore(volatilityData)
        totalScore == technicalScore + momentumScore + fundamentalScore
                      + sentimentScore + volatilityScore
        normalizedScore == Normalize(totalScore)
    IN  [totalScore |-> normalizedScore,
         rawScore |-> totalScore,
         breakdown |-> [technical |-> technicalScore, momentum |-> momentumScore,
                        fundamental |-> fundamentalScore,
                        sentiment |-> sentimentScore,
                        volatility |-> volatilityScore],
         recommendation |-> GetRecommendation(normalizedScore),
         confidence |-> GetConfidence(normalizedScore, technicalData, newsData)]

NoTechnical == [present |-> FALSE, signals |-> {}, indicators |-> NoIndicators,
                currentPrice |-> 0, score |-> 0]
NoFundamental == [present |-> FALSE, peRatio |-> 0, pegRatio |-> 0]
NoNews == [present |-> FALSE, sentiment |-> "", headlineCount |-> 0]
NoVolatility == [present |-> FALSE, atrPercent |-> 0, volumeSpike |-> 0]
NoTimeframes == [present |-> FALSE, hourlyTrend |-> "", dailyTrend |-> ""]

NoScored ==
    [called |-> FALSE, technicalData |-> NoTechnical, fundamentalData |-> NoFundamental,
     newsData |-> NoNews, volatilityData |-> NoVolatility,
     multiTimeframeData |-> NoTimeframes,
     result |-> [totalScore |-> 0, rawScore |-> 0,
                 breakdown |-> [technical |-> 0, momentum |-> 0, fundamental |-> 0,
                                sentiment |-> 0, volatility |-> 0],
                 recommendation |-> "", confidence |-> 0]]

(***************************************************************************)
(* KisApi.getAuthToken (kis-api.js, src/unnamed/part_002)                  *)
(*                                                                         *)
(* Times are minutes; the one-minute buffer of the expiry is TokenBuffer.  *)
(* A token is a positive number, the n-th token the server issued, or      *)
(* FileToken for one that an earlier process left in token.json.           *)
(***************************************************************************)
NoToken == 0                 \* accessToken = null
NoExpiry == 0                \* tokenExpiry = null
TokenBuffer == 1             \* - 60000 ms
FileToken == 100

\* token.json: absent, unreadable (JSON.parse throws), or {token, expiry}
NoTokenFile == [exists |-> FALSE, readable |-> FALSE, token |-> NoToken,
                expiry |-> NoExpiry]
CorruptTokenFile == [exists |-> TRUE, readable |-> FALSE, token |-> NoToken,
                     expiry |-> NoExpiry]
TokenFile(token, expiry) == [exists |-> TRUE, readable |-> TRUE, token |-> token,
                             expiry |-> expiry]

\* this.accessToken && this.tokenExpiry && new Date() < this.tokenExpiry
MemoryTokenValid(token, expiry, time) ==
    token # NoToken /\ expiry # NoExpiry /\ time < expiry

\* existsSync, JSON.parse without an exception, new Date(data.expiry) > new Date()
FileTokenValid(file, time) == file.exists /\ file.readable /\ file.expiry > time

\* (variant: the expiry without the buffer)
TokenExpiry_NoBuffer(time, expiresIn) == time + expiresIn

\* new Date(Date.now() + expires_in * 1000 - 60000)
TokenExpiry(time, expiresIn) == time + expiresIn - TokenBuffer

\* getAuthToken at the minute time, with the KisApi holding (token, expiry) and
\* token.json being file; response is what POST /oauth2/tokenP would answer and
\* writeOk whether writeFileSync would succeed
GetAuthToken(token, expiry, file, time, response, writeOk) ==
    IF MemoryTokenValid(token, expiry, time)
    THEN [accessToken |-> token, tokenExpiry |-> expiry, file |-> file,
          returned |-> token, requested |-> FALSE, source |-> "memory"]
    ELSE IF FileTokenValid(file, time)
    THEN [accessToken |-> file.token, tokenExpiry |-> file.expiry, file |-> file,
          returned |-> file.token, requested |-> FALSE, source |-> "file"]
    ELSE IF response.ok
    THEN LET newExpiry == TokenExpiry(time, response.expires_in)
         IN  [accessToken |-> response.access_token, tokenExpiry |-> newExpiry,
              file |-> IF writeOk THEN TokenFile(response.access_token, newExpiry)
                       ELSE file,
              returned |-> response.access_token, requested |-> TRUE,
              source |-> "server"]
    ELSE [accessToken |-> token, tokenExpiry |-> expiry, file |-> file,
          returned |-> NoToken, requested |-> TRUE, source |-> "error"]

NoAuthCall == [called |-> FALSE, time |-> 0, source |-> "", requested |-> FALSE,
               returned |-> NoToken, memoryValid |-> FALSE, fileValid |-> FALSE,
               expires_in |-> 0]

NoIssued == [count |-> 0, token |-> NoToken, time |-> 0, expires_in |-> 0]

(***************************************************************************)
(* The restart loop of Trader.start (trader.js, src/unnamed/part_006)      *)
(***************************************************************************)
\* the Trader after its constructor; restartRequired, the passes begun and the
\* trade of the running pass are locals of start()
NoTrader == [isTrading |-> FALSE, pc |-> "idle", restartRequired |-> FALSE,
             passes |-> 0, traded |-> FALSE, cancelled |-> FALSE, exit |-> ""]

NoUnfilledOrder == [open |-> FALSE, exchange |-> ""]

(***************************************************************************)
(* filterByVolatility (src/src/enhanced-trader.js): the state of its loop  *)
(***************************************************************************)
\* the loop of the cycle numbered cycle before its first batch: i is the index
\* of the next batch (from 1), inFlight the callbacks of Promise.all that have
\* not settled, results the length of results
FreshFilter(cycle) == [cycle |-> cycle, i |-> 1, inFlight |-> 0, results |-> 0,
                       batches |-> 0]

(***************************************************************************)
(* EnhancedTrader.checkSellSignal (enhanced-trader.js)                     *)
(***************************************************************************)
MinBars == 50      \* historicalData.length < 50: no signal

\* (variant: a SELL recommendation sells whatever its confidence, and so does HOLD)
SignalSells_Any(result) == result.recommendation \in {"STRONG_SELL", "SELL", "HOLD"}

\* the two tests of checkSellSignal on the result of calculateScore
SignalSells(result) ==
    \/ result.recommendation = "STRONG_SELL"
    \/ result.recommendation = "SELL" /\ result.confidence >= 70

\* checkSellSignal: bars is historicalData.length, threw is a fetch or the
\* analysis throwing; calculateScore gets the analysis, the fundamentals and
\* null for the news, and nothing for the volatility and the timeframes
CheckSellSignal(bars, threw, analysis, fundamentalData) ==
    IF threw \/ bars < MinBars
    THEN [shouldSell |-> FALSE, scoredIt |-> FALSE, score |-> 0,
          recommendation |-> "", confidence |-> 0]
    ELSE LET result == CalculateScore(analysis, fundamentalData, NoNews, NoVolatility,
                                      NoTimeframes)
         IN  [shouldSell |-> SignalSells(result), scoredIt |-> TRUE,
              score |-> result.totalScore, recommendation |-> result.recommendation,
              confidence |-> result.confidence]

NoAdvised == [op |-> "", score |-> 0, recommendation |-> "", confidence |-> 0,
              scoredIt |-> FALSE, shouldSell |-> FALSE]

(***************************************************************************)
(* The PositionManager under arbitrary calls of its interface              *)
(*                                                                         *)
(* last, tpReturned and scen observe these calls: last is the call just    *)
(* made, tpReturned counts (up to 2) the TAKE_PROFIT_Lk results a record   *)
(* has produced, scen[s] = k says that the record of s was added at        *)
(* Scenario.entry and has since been updated at exactly the first k        *)
(* Scenario.prices (-1: it has not).                                       *)
(***************************************************************************)
Scenario ==
    [entry |-> 100, prices |-> <<100, 102, 101, 98>>,
     actions |-> <<"HOLD", "HOLD", "HOLD", "TRAILING_STOP">>]

NoTakeProfits == [k \in {1, 2, 3} |-> 0]

\* the list of holdings (symbol, qty) for a set of symbols, in a fixed order
RECURSIVE HoldingList(_)
HoldingList(S) ==
    IF S = {} THEN <<>>
    ELSE LET s == CHOOSE x \in S : TRUE
         IN  <<[symbol |-> s, qty |-> 5]>> \o HoldingList(S \ {s})

SyncArguments ==
    {[kind |-> "null", items |-> <<>>], [kind |-> "undefined", items |-> <<>>]}
    \cup {[kind |-> "list", items |-> HoldingList(S)] : S \in SUBSET Symbols}

PmOf == PmState(positions, disk, saveOk)

SetPm(pm) ==
    /\ positions' = pm.positions
    /\ disk' = pm.disk
    /\ saveOk' = pm.saveOk

\* held: the symbols of the list handed to syncPositions; stale: the symbols
\* the call removed
Call(op, symbol, price, action, threw, arg) ==
    [op |-> op, symbol |-> symbol, price |-> price, action |-> action,
     threw |-> threw, arg |-> arg, held |-> {}, stale |-> {}]

NoOrder == [symbol |-> "", side |-> "", qty |-> 0, reason |-> "", ok |-> FALSE]

\* no iteration with a quote yet (or none kept)
NoAttempt == [price |-> 0, action |-> "", sell |-> FALSE, ok |-> FALSE]

\* no iteration of manageExistingPositions yet
NoManaged == [called |-> FALSE, symbol |-> "", action |-> "", consulted |-> FALSE,
              sell |-> FALSE, reason |-> ""]

\* executeSell awaits no placeOrder
NoPending == [order |-> NoOrder, price |-> 0]

NoRegime == [allowBuy |-> FALSE, allowSell |-> FALSE, positionSizeMultiplier |-> 1000]

NoRegimeCall ==
    [called |-> FALSE, time |-> 0, source |-> "", vixFailed |-> FALSE,
     spyFailed |-> FALSE, regime |-> EmptyCache.regime]

NoDetermined ==
    [called |-> FALSE, vix |-> 0, trend |-> "", session |-> "",
     regime |-> EmptyCache.regime]

NoPlaced ==
    [called |-> FALSE, symbol |-> "", side |-> "", qty |-> 0, price |-> 0,
     result |-> [transmitted |-> FALSE, trId |-> "", hashkey |-> FALSE,
                 returned |-> "null"]]

DefaultMode == "PAPER"      \* config.trading.mode without TRADING_MODE
StartTime == 630             \* the minute the process starts at: 10:30 in New York

\* the services before their first call, started at minute t in mode m
ServicesInit(t, m) ==
    /\ now = t
    /\ boot = t
    /\ cache = EmptyCache
    /\ lastRegime = NoRegimeCall
    /\ determined = NoDetermined
    /\ mode = m
    /\ placed = NoPlaced
    /\ alive = TRUE
    /\ exitPath = ""
    /\ pending = NoPending
    /\ scored = NoScored
    /\ accessToken = NoToken
    /\ tokenExpiry = NoExpiry
    /\ tokenFile = NoTokenFile
    /\ lastAuth = NoAuthCall
    /\ issued = NoIssued
    /\ managed = NoManaged
    /\ sellOrders = [s \in Symbols |-> 0]
    /\ trader = NoTrader
    /\ unfilledOrder = NoUnfilledOrder
    /\ starts = 0
    /\ legacyTrades = 0
    /\ filterState = FreshFilter(0)
    /\ advised = NoAdvised
    /\ attempts = [s \in Symbols |-> NoAttempt]

NoSizing ==
    [totalCapital |-> 0, currentPrice |-> 0, score |-> 0, regimeMultiplier |-> 0,
     atr |-> 0, called |-> FALSE,
     result |-> [quantity |-> 0, value |-> 0, percent |-> [num |-> 0, den |-> 1],
                 score |-> 0, regimeMultiplier |-> 0]]

NoGate ==
    [count |-> 0, totalValue |-> 0, totalCapital |-> 0, newPositionValue |-> 0,
     called |-> FALSE, result |-> [allowed |-> FALSE, reason |-> ""]]

\* the trader before its first cycle, with the account holding b, in a process
\* started at minute t in mode m
TraderInitIn(b, t, m) ==
    /\ isTrading = FALSE
    /\ pc = "idle"
    /\ regime = NoRegime
    /\ holdings = <<>>
    /\ idx = 0
    /\ cycles = 0
    /\ broker = b
    /\ bought = b
    /\ lastOrder = NoOrder
    /\ tierSells = [s \in Symbols |-> NoTakeProfits]
    /\ sized = NoSizing
    /\ gate = NoGate
    /\ buyingPower = 0
    /\ candidates = <<>>
    /\ cand = 0
    /\ remainingBuyingPower = 0
    /\ tradesExecuted = 0
    /\ trigger = "none"
    /\ running = 0
    /\ lastExit = ""
    /\ ServicesInit(t, m)

\* the trader before its first cycle, with the account holding b
TraderInit(b) == TraderInitIn(b, StartTime, DefaultMode)

PmInit ==
    /\ disk = NoFile
    /\ positions = LoadPositions(disk)
    /\ saveOk = TRUE
    /\ last = Call("new", "", 0, "", FALSE, "")
    /\ tpReturned = [s \in Symbols |-> NoTakeProfits]
    /\ scen = [s \in Symbols |-> -1]

InitPM == PmInit /\ TraderInit([s \in Symbols |-> 0])

\* W: the outcomes of writeFileSync the environment can produce.
AddPositionCall(W) ==
    \E s \in Symbols, e \in EntryPrices, q \in Quantities, sc \in Scores,
       t \in Times, w \in W :
        /\ SetPm(AddPosition(PmOf, s, e, q, sc, t, w))
        /\ last' = Call("addPosition", s, e, "", FALSE, "")
        /\ tpReturned' = [tpReturned EXCEPT ![s] = NoTakeProfits]
        /\ scen' = [scen EXCEPT ![s] = IF e = Scenario.entry THEN 0 ELSE -1]
        /\ UNCHANGED traderVars

RemovePositionCall(W) ==
    \E s \in Symbols, w \in W :
        /\ SetPm(RemovePosition(PmOf, s, w))
        /\ last' = Call("removePosition", s, 0, "", FALSE, "")
        /\ tpReturned' = [tpReturned EXCEPT ![s] = NoTakeProfits]
        /\ scen' = [scen EXCEPT ![s] = -1]
        /\ UNCHANGED traderVars

SyncPositionsCall(W) ==
    \E h \in SyncArguments, w \in W :
        LET r == SyncPositions(PmOf, h, w)
            kept == DOMAIN r.pm.positions
        IN  /\ SetPm(r.pm)
            /\ last' = [Call("syncPositions", "", 0, "", r.threw, h.kind) EXCEPT
                            !.held = { h.items[i].symbol : i \in 1..Len(h.items) },
                            !.stale = DOMAIN positions \ kept]
            /\ tpReturned' = [s \in Symbols |->
                                IF s \in kept THEN tpReturned[s] ELSE NoTakeProfits]
            /\ scen' = [s \in Symbols |-> IF s \in kept THEN scen[s] ELSE -1]
            /\ UNCHANGED traderVars

LevelOf(action) ==
    CASE action = "TAKE_PROFIT_L1" -> 1 [] action = "TAKE_PROFIT_L2" -> 2
      [] action = "TAKE_PROFIT_L3" -> 3 [] OTHER -> 0

UpdatePriceCall(P, W) ==
    \E s \in Symbols, p \in P, w \in W :
        LET r == UpdatePrice(PmOf, s, p, w)
            k == LevelOf(r.result.action)
        IN  /\ SetPm(r.pm)
            /\ last' = Call("updatePrice", s, p, r.result.action, FALSE, "")
            /\ tpReturned' = IF k = 0 THEN tpReturned
                             ELSE [tpReturned EXCEPT ![s][k] = Min(@ + 1, 2)]
            /\ scen' = [scen EXCEPT ![s] =
                          IF s \in DOMAIN positions /\ @ \in 0..3
                             /\ p = Scenario.prices[Min(@, 3) + 1]
                          THEN @ + 1 ELSE -1]
            /\ UNCHANGED traderVars

\* Calls in any order.  The file is read by the constructor only, so the
\* outcome of a write cannot influence a later call: here every write succeeds.
NextPM ==
    \/ AddPositionCall({TRUE})
    \/ RemovePositionCall({TRUE})
    \/ SyncPositionsCall({TRUE})
    \/ UpdatePriceCall(Prices, {TRUE})

SpecPM == InitPM /\ [][NextPM]_vars

\* Calls in any order, each write succeeding or failing.
NextStore ==
    \/ AddPositionCall(BOOLEAN)
    \/ RemovePositionCall(BOOLEAN)
    \/ SyncPositionsCall(BOOLEAN)
    \/ UpdatePriceCall(StorePrices, BOOLEAN)

SpecStore == InitPM /\ [][NextStore]_vars

(***************************************************************************)
(* Position sizing and exposure gating under arbitrary arguments           *)
(***************************************************************************)
\* the tickers of config.tickers, in a fixed order
Tickers ==
    <<"AAPL", "MSFT", "AMZN", "NVDA", "GOOGL", "META", "TSLA", "AVGO", "PEP", "COST",
      "JPM", "V", "UNH", "XOM", "JNJ", "WMT", "PG", "MA", "HD", "CVX", "MRK", "ABBV",
      "KO">>

\* a balance of n holdings, each of qty shares at currentPrice
HeldList(n, qty, currentPrice) ==
    [i \in 1..n |-> [symbol |-> Tickers[i], qty |-> qty, avgPrice |-> currentPrice,
                     currentPrice |-> currentPrice]]

Capitals == {1000, 10000}
SizePrices == {5, 100, 600, 1000}
SizeScores == {50, 60, 70, 80, 90}
Multipliers == {200, 500, 1000, 1440, 2000}     \* thousandths
Atrs == {0, 4, 6}
HeldCounts == {0, 1, 19, 20, 21}
HeldPrices == {0, 10, 100}
GateCapitals == {0, 1000, 100000}
PositionValues == {0, 100, 500}

\* calculatePositionSize and canAddPosition read the configuration and their
\* arguments only: a call leaves nothing behind for the next one, and each
\* call records its own arguments and result alone.
CalculatePositionSizeCall ==
    \E c \in Capitals, p \in SizePrices, sc \in SizeScores, m \in Multipliers,
       a \in Atrs :
        /\ sized' = [totalCapital |-> c, currentPrice |-> p, score |-> sc,
                     regimeMultiplier |-> m, atr |-> a, called |-> TRUE,
                     result |-> CalculatePositionSize(c, p, sc, m, a)]
        /\ gate' = NoGate
        /\ UNCHANGED <<pmVars, isTrading, pc, regime, holdings, idx, cycles, broker,
                       bought, lastOrder, tierSells, buyVars, guardVars,
                       regimeVars, orderVars, processVars, scoreVars, apiVars,
                       manageVars, legacyVars, filterVars, adviceVars, retryVars>>

CanAddPositionCall ==
    \E n \in HeldCounts, hp \in HeldPrices, c \in GateCapitals, v \in PositionValues :
        LET held == HeldList(n, 1, hp)
        IN  /\ gate' = [count |-> Len(held), totalValue |-> n * hp, totalCapital |-> c,
                        newPositionValue |-> v, called |-> TRUE,
                        result |-> CanAddPosition(held, c, v)]
            /\ sized' = NoSizing
            /\ UNCHANGED <<pmVars, isTrading, pc, regime, holdings, idx, cycles,
                           broker, bought, lastOrder, tierSells, buyVars,
                           guardVars, regimeVars, orderVars, processVars, scoreVars,
                           apiVars, manageVars, legacyVars, filterVars, adviceVars,
                           retryVars>>

NextSize ==
    \/ CalculatePositionSizeCall
    \/ CanAddPositionCall

SpecSize == InitPM /\ [][NextSize]_vars

(***************************************************************************)
(* EnhancedTrader: a trading cycle (start)                                 *)
(*                                                                         *)
(* The account starts with holdings bought at AvgPrice and no position     *)
(* file.  An accepted SELL order takes its quantity off the orderable      *)
(* quantity (ord_psbl_qty) that the next getBalance reports; an accepted   *)
(* BUY order adds its quantity.  The writes of the position file succeed   *)
(* here; SpecStore has them fail.                                          *)
(*                                                                         *)
(* trigger, running and lastExit observe the cycle: the outcome of the     *)
(* latest start() call, the number of start() calls past the guard that    *)
(* have not returned, and the way the latest cycle ended.                  *)
(***************************************************************************)
MaxCycles == 2               \* cycles started in a run

MinBuyingPower == 10         \* start: if (buyingPower < 10) return
MaxTradesPerCycle == 3       \* analyzeAndTrade: maxTradesPerCycle
MinPrice == 5                \* filterByVolatility: if (price < 5) return null
MinAtrPercent == 15          \* filterByVolatility: atrPercent < 1.5, in tenths

AvgPrice(symbol) == 100           \* pchs_avg_pric of the holding of symbol
CurrentPrice(symbol) == 100       \* now_pric2 of the holding of symbol
BrokerQuantities == {0, 20}       \* ord_psbl_qty at the start
Quotes == {97, 100, 103, 105, 110}   \* regularMarketPrice of a quote
NoQuote == [price |-> 0]          \* fetchQuote returned null
Quote(p) == [price |-> p]

\* regimes getMarketRegime hands to the cycle that do not allow new buys
Regimes == {[allowBuy |-> FALSE, allowSell |-> TRUE, positionSizeMultiplier |-> 500],
            NoRegime}

\* a regime that allows new buys
BuyRegime == [allowBuy |-> TRUE, allowSell |-> TRUE, positionSizeMultiplier |-> 1000]

\* getBalance: the holdings with qty > 0, one entry per symbol
RECURSIVE BalanceHoldings(_, _)
BalanceHoldings(b, S) ==
    IF S = {} THEN <<>>
    ELSE LET s == CHOOSE x \in S : TRUE
             rest == BalanceHoldings(b, S \ {s})
         IN  IF b[s] > 0
             THEN <<[symbol |-> s, qty |-> b[s], avgPrice |-> AvgPrice(s),
                     currentPrice |-> CurrentPrice(s)]>> \o rest
             ELSE rest

\* h.currentValue || 0 : the holdings of getBalance carry no currentValue
CurrentValue(h) == 0

RECURSIVE SumCurrentValues(_, _)
SumCurrentValues(held, n) ==
    IF n = 0 THEN 0 ELSE SumCurrentValues(held, n - 1) + CurrentValue(held[n])

\* start: totalCapital = buyingPower + holdings.reduce((sum, h) => sum + (h.currentValue || 0), 0)
TotalCapital(power, held) == power + SumCurrentValues(held, Len(held))

\* Math.ceil(holding.qty * (sellPercent / 100))
SellQty(qty, sellPercent) == (qty * sellPercent + 99) \div 100

\* (variant: the record is removed whether or not the order was accepted)
ExecuteSell_RemovesAlways(pm, symbol, orderOk, writeOk) ==
    RemovePosition(pm, symbol, writeOk)

\* executeSell: the record is removed when the order was accepted
ExecuteSell(pm, symbol, orderOk, writeOk) ==
    IF orderOk THEN RemovePosition(pm, symbol, writeOk) ELSE pm

\* (variant: checkSellSignal is asked first, whatever updatePrice returned)
SellDecision_SignalFirst(holding, result, shouldSell) ==
    IF shouldSell
    THEN [sell |-> TRUE, qty |-> holding.qty, reason |-> "SIGNAL_SELL",
          consulted |-> TRUE]
    ELSE IF result.action \in {"STOP_LOSS", "TRAILING_STOP"}
    THEN [sell |-> TRUE, qty |-> holding.qty, reason |-> result.action,
          consulted |-> TRUE]
    ELSE IF LevelOf(result.action) # 0
    THEN LET sellQty == SellQty(holding.qty, result.sellPercent)
         IN  [sell |-> sellQty > 0, qty |-> sellQty, reason |-> result.action,
              consulted |-> TRUE]
    ELSE [sell |-> FALSE, qty |-> holding.qty, reason |-> "SIGNAL_SELL",
          consulted |-> TRUE]

\* the order one iteration of manageExistingPositions places for the decision
\* of updatePrice: [sell, qty, reason], and whether checkSellSignal was
\* consulted (shouldSell is what it answers when asked)
SellDecision(holding, result, shouldSell) ==
    IF result.action \in {"STOP_LOSS", "TRAILING_STOP"}
    THEN [sell |-> TRUE, qty |-> holding.qty, reason |-> result.action,
          consulted |-> FALSE]
    ELSE IF LevelOf(result.action) # 0
    THEN LET sellQty == SellQty(holding.qty, result.sellPercent)
         IN  [sell |-> sellQty > 0, qty |-> sellQty, reason |-> result.action,
              consulted |-> FALSE]
    ELSE [sell |-> shouldSell, qty |-> holding.qty, reason |-> "SIGNAL_SELL",
          consulted |-> TRUE]

\* the record of an iteration that got as far as updatePrice
Managed(symbol, result, decision) ==
    [called |-> TRUE, symbol |-> symbol, action |-> result.action,
     consulted |-> decision.consulted, sell |-> decision.sell,
     reason |-> IF decision.sell THEN decision.reason ELSE ""]

\* the record of an iteration that ended at a missing quote
ManagedNoQuote(symbol) ==
    [called |-> TRUE, symbol |-> symbol, action |-> "", consulted |-> FALSE,
     sell |-> FALSE, reason |-> ""]

\* the count of SELL orders after an iteration
SellOrdersAfter(counts, symbol, decision) ==
    [counts EXCEPT ![symbol] = IF decision.sell THEN Min(@ + 1, 2) ELSE @]

\* (variant: start() without the re-entrancy guard)
StartSkips_Never == FALSE

\* start(): if (this.isTrading) { ...; return; }
StartSkips == isTrading

\* start() past the guard: isTrading is set, then the wait for getMarketRegime
StartCycle ==
    /\ ~StartSkips
    /\ cycles < MaxCycles
    /\ isTrading' = TRUE
    /\ pc' = "regime"
    /\ cycles' = cycles + 1
    /\ running' = running + 1
    /\ trigger' = "started"
    /\ lastOrder' = NoOrder
    /\ managed' = NoManaged
    /\ sellOrders' = [s \in Symbols |-> 0]
    /\ UNCHANGED <<pmVars, regime, holdings, idx, broker, bought, tierSells, sizeVars, regimeVars, orderVars, processVars,
                   buyVars, lastExit, scoreVars, apiVars, legacyVars, filterVars,
                   adviceVars, retryVars>>

\* start() while a cycle is in progress: a warning is logged and the call
\* returns
StartWhileTrading ==
    /\ StartSkips
    /\ trigger' = "skipped"
    /\ UNCHANGED <<pmVars, isTrading, pc, regime, holdings, idx, cycles, broker, bought,
                   lastOrder, tierSells, sizeVars, regimeVars, orderVars, processVars, buyVars, running, lastExit,
                   scoreVars, apiVars, manageVars, legacyVars, filterVars, adviceVars,
                   retryVars>>

\* (variant: the flag is not cleared when the cycle throws)
FinallyClears_NotOnThrow(exit) == exit # "threw"

\* finally { this.isTrading = false } runs on every way out of the try block
FinallyClears(exit) == TRUE

\* the end of start(), by return, by falling off the end or through catch
CycleEnds(exit) ==
    /\ isTrading' = IF FinallyClears(exit) THEN FALSE ELSE isTrading
    /\ running' = running - 1
    /\ lastExit' = exit
    /\ pc' = "idle"
    /\ holdings' = <<>>
    /\ idx' = 0
    /\ buyingPower' = 0
    /\ candidates' = <<>>
    /\ cand' = 0
    /\ remainingBuyingPower' = 0
    /\ tradesExecuted' = 0

\* (variant: the cycle goes on whatever the regime permits)
CycleSkipped_Never(r) == FALSE

\* if (!marketRegime.allowBuy && !marketRegime.allowSell) return
CycleSkipped(r) == ~r.allowBuy /\ ~r.allowSell

\* getMarketRegime returns a regime of R; neither buy nor sell allowed ends
\* the cycle
RegimeReturnsOf(R) ==
    /\ pc = "regime"
    /\ \E r \in R :
        /\ regime' = r
        /\ IF CycleSkipped(r)
           THEN CycleEnds("closed")
           ELSE /\ pc' = "balance"
                /\ UNCHANGED <<isTrading, holdings, idx, buyVars, running, lastExit>>
    /\ lastOrder' = NoOrder
    /\ UNCHANGED <<pmVars, cycles, broker, bought, tierSells, sizeVars, regimeVars, orderVars, processVars, trigger,
                   scoreVars, apiVars, manageVars, legacyVars, filterVars, adviceVars,
                   retryVars>>

RegimeReturns == RegimeReturnsOf(Regimes)

\* getBalance returns the account with a buying power of B, or null:
\* accountData.buyingPower then throws, which the catch of start() logs
BalanceReturnsWith(B) ==
    /\ pc = "balance"
    /\ \E failed \in BOOLEAN, power \in B :
        IF failed
        THEN CycleEnds("threw")
        ELSE /\ holdings' = BalanceHoldings(broker, Symbols)
             /\ buyingPower' = power
             /\ idx' = 1
             /\ pc' = "manage"
             /\ UNCHANGED <<isTrading, candidates, cand, remainingBuyingPower,
                            tradesExecuted, running, lastExit>>
    /\ lastOrder' = NoOrder
    /\ UNCHANGED <<pmVars, regime, cycles, broker, bought, tierSells, sizeVars, regimeVars, orderVars, processVars, trigger,
                   scoreVars, apiVars, manageVars, legacyVars, filterVars, adviceVars,
                   retryVars>>

BalanceReturns == BalanceReturnsWith({0})

\* (variant: the catch is around the loop, a failure ends it)
NextAfterFailure_Abort(i, n) == n + 1

\* try { ... } catch inside the for loop, and continue: after a failure on
\* item i of n the loop goes on with the next item
NextAfterFailure(i, n) == i + 1

\* a tier's count of accepted SELL orders: reset when the quote is below the
\* tier's threshold or the holding is closed, raised by an accepted tier order
TierSellsAfter(counts, pos, price, order, left) ==
    [k \in {1, 2, 3} |->
        IF left = 0 \/ ~ProfitAtLeast(pos, price, TakeProfit[k].percent) THEN 0
        ELSE IF order.ok /\ LevelOf(order.reason) = k THEN Min(counts[k] + 1, 2)
        ELSE counts[k]]

\* the history of iterations after one that got as far as updatePrice: what
\* updatePrice returned at which price, and how the SELL order, if any, went
AttemptsAfter(history, symbol, price, result, decision, orderOk) ==
    [history EXCEPT ![symbol] = [price |-> price, action |-> result.action,
                                 sell |-> decision.sell,
                                 ok |-> decision.sell /\ orderOk]]

\* one iteration of the loop of manageExistingPositions, with a quote of Q or
\* none
ManageHoldingRecording(Q, record) ==
    /\ pc = "manage"
    /\ idx <= Len(holdings)
    /\ LET holding == holdings[idx]
           symbol == holding.symbol
       IN  \E quote \in {Quote(p) : p \in Q} \cup {NoQuote}, orderOk \in BOOLEAN,
              shouldSell \in BOOLEAN, t \in Times :
            IF quote = NoQuote
            THEN /\ lastOrder' = NoOrder
                 /\ managed' = ManagedNoQuote(symbol)
                 /\ idx' = NextAfterFailure(idx, Len(holdings))
                 /\ UNCHANGED <<positions, disk, saveOk, broker, tierSells, sellOrders,
                                attempts>>
            ELSE LET registered ==
                         IF HasPosition(PmOf, symbol) THEN PmOf
                         ELSE AddPosition(PmOf, symbol, holding.avgPrice, holding.qty,
                                          DefaultScore, t, TRUE)
                     status == UpdatePrice(registered, symbol, quote.price, TRUE)
                     decision == SellDecision(holding, status.result, shouldSell)
                     order == [symbol |-> symbol, side |-> "SELL", qty |-> decision.qty,
                               reason |-> decision.reason, ok |-> orderOk]
                     sold == decision.sell /\ orderOk
                     left == IF sold THEN broker[symbol] - decision.qty ELSE broker[symbol]
                 IN  /\ SetPm(IF decision.sell
                              THEN ExecuteSell(status.pm, symbol, orderOk, TRUE)
                              ELSE status.pm)
                     /\ lastOrder' = IF decision.sell THEN order ELSE NoOrder
                     /\ managed' = Managed(symbol, status.result, decision)
                     /\ idx' = IF decision.sell /\ ~orderOk
                               THEN NextAfterFailure(idx, Len(holdings))
                               ELSE idx + 1
                     /\ sellOrders' = SellOrdersAfter(sellOrders, symbol, decision)
                     /\ broker' = [broker EXCEPT ![symbol] = left]
                     /\ attempts' = IF record
                                     THEN AttemptsAfter(attempts, symbol, quote.price,
                                                        status.result, decision, orderOk)
                                     ELSE attempts
                     /\ tierSells' = [tierSells EXCEPT ![symbol] =
                            TierSellsAfter(@, status.pm.positions[symbol], quote.price,
                                           IF decision.sell THEN order ELSE NoOrder, left)]
    /\ UNCHANGED <<last, tpReturned, scen, isTrading, pc, regime, holdings, cycles, bought,
                   sizeVars, regimeVars, orderVars, processVars, buyVars, guardVars,
                   scoreVars, apiVars, legacyVars, filterVars, adviceVars>>

\* one iteration of the loop of manageExistingPositions
ManageHoldingAt(Q) == ManageHoldingRecording(Q, FALSE)

ManageHolding == ManageHoldingAt(Quotes)

\* the loop is over: start() returns when buys are not allowed or the buying
\* power is below 10, and goes on to filterByVolatility otherwise
ManageDone ==
    /\ pc = "manage"
    /\ idx > Len(holdings)
    /\ IF ~regime.allowBuy THEN CycleEnds("noBuy")
       ELSE IF buyingPower < MinBuyingPower THEN CycleEnds("noPower")
       ELSE /\ pc' = "filter"
            /\ UNCHANGED <<isTrading, holdings, idx, buyVars, running, lastExit>>
    /\ lastOrder' = NoOrder
    /\ UNCHANGED <<pmVars, regime, cycles, broker, bought, tierSells, sizeVars, regimeVars, orderVars, processVars, trigger,
                   scoreVars, apiVars, manageVars, legacyVars, filterVars, adviceVars,
                   retryVars>>

\* filterByVolatility on the tickers with a quote and a volatility analysis
\* (pool, in descending order of volatility score): priced within the buying
\* power, not below 5, ATR at least 1.5 %
FilterByVolatility(pool, power) ==
    LET passes(c) == /\ ~(c.price > power)
                     /\ ~(c.price < MinPrice)
                     /\ ~(c.atrPercent < MinAtrPercent)
    IN  SelectSeq(pool, passes)

\* filterByVolatility returns; start() returns when nothing is left, and enters
\* analyzeAndTrade otherwise
FilterReturns(pools) ==
    /\ pc = "filter"
    /\ \E pool \in pools :
        LET volatileStocks == FilterByVolatility(pool, buyingPower)
        IN  IF Len(volatileStocks) = 0
            THEN CycleEnds("noCandidates")
            ELSE /\ candidates' = volatileStocks
                 /\ cand' = 1
                 /\ remainingBuyingPower' = buyingPower
                 /\ tradesExecuted' = 0
                 /\ pc' = "trade"
                 /\ UNCHANGED <<isTrading, holdings, idx, buyingPower, running, lastExit>>
    /\ lastOrder' = NoOrder
    /\ filterState' = FreshFilter(cycles)
    /\ UNCHANGED <<pmVars, regime, cycles, broker, bought, tierSells, sizeVars, regimeVars, orderVars, processVars, trigger,
                   scoreVars, apiVars, manageVars, legacyVars, adviceVars, retryVars>>

\* analyzeStock returned null (or threw)
NoAnalysis == [score |-> 0, recommendation |-> "null"]

\* what analyzeStock can return
Analyses ==
    {NoAnalysis, [score |-> 50, recommendation |-> "HOLD"],
     [score |-> 65, recommendation |-> "BUY"],
     [score |-> 90, recommendation |-> "STRONG_BUY"]}

\* (variant: no candidate counts as held)
AlreadyHeld_Never(held, symbol) == FALSE

\* holdings.some(h => h.symbol === candidate.symbol)
AlreadyHeld(held, symbol) == \E i \in 1..Len(held) : held[i].symbol = symbol

\* the BUY one iteration of the loop of analyzeAndTrade decides on:
\* [place, qty]
BuyDecision(candidate, analysis, held, capital, remaining, multiplier) ==
    IF remaining < candidate.price \/ AlreadyHeld(held, candidate.symbol)
       \/ analysis = NoAnalysis
       \/ analysis.recommendation \notin {"STRONG_BUY", "BUY"}
    THEN [place |-> FALSE, qty |-> 0]
    ELSE LET positionSize == CalculatePositionSize(capital, candidate.price,
                                 analysis.score, multiplier, candidate.atr)
             affordableQty == remaining \div candidate.price
             finalQty == Min(positionSize.quantity, affordableQty)
         IN  IF finalQty <= 0 THEN [place |-> FALSE, qty |-> 0]
             ELSE [place |-> CanAddPosition(held, capital,
                                            finalQty * candidate.price).allowed,
                   qty |-> finalQty]

\* (variant: the buy is booked whether or not the order was accepted)
BuyBooked_Unchecked(decision, orderOk) == decision.place

\* if (orderResult): the buy is booked when executeBuy returned true
BuyBooked(decision, orderOk) == decision.place /\ orderOk

\* one iteration of the loop of analyzeAndTrade
AnalyzeCandidate ==
    /\ pc = "trade"
    /\ cand <= Len(candidates)
    /\ tradesExecuted < MaxTradesPerCycle
    /\ LET candidate == candidates[cand]
           symbol == candidate.symbol
       IN  \E analysis \in Analyses, orderOk \in BOOLEAN, t \in Times :
            LET decision == BuyDecision(candidate, analysis, holdings,
                                TotalCapital(buyingPower, holdings),
                                remainingBuyingPower, regime.positionSizeMultiplier)
                order == [symbol |-> symbol, side |-> "BUY", qty |-> decision.qty,
                          reason |-> "BUY", ok |-> orderOk]
            IN  /\ lastOrder' = IF decision.place THEN order ELSE NoOrder
                /\ cand' = IF analysis = NoAnalysis \/ (decision.place /\ ~orderOk)
                            THEN NextAfterFailure(cand, Len(candidates))
                            ELSE cand + 1
                /\ IF BuyBooked(decision, orderOk)
                   THEN /\ remainingBuyingPower' =
                               remainingBuyingPower - decision.qty * candidate.price
                        /\ tradesExecuted' = tradesExecuted + 1
                        /\ SetPm(AddPosition(PmOf, symbol, candidate.price, decision.qty,
                                             analysis.score, t, TRUE))
                        /\ broker' = Put(broker, symbol, decision.qty)
                        /\ bought' = Put(bought, symbol, decision.qty)
                   ELSE UNCHANGED <<remainingBuyingPower, tradesExecuted, positions, disk,
                                    saveOk, broker, bought>>
    /\ UNCHANGED <<last, tpReturned, scen, isTrading, pc, regime, holdings, idx, cycles,
                   tierSells, sizeVars, regimeVars, orderVars, processVars, buyingPower, candidates, guardVars,
                   scoreVars, apiVars, manageVars, legacyVars, filterVars, adviceVars,
                   retryVars>>

\* the loop of analyzeAndTrade is over, by its end or by the break at
\* maxTradesPerCycle; start() completes
TradeDone ==
    /\ pc = "trade"
    /\ (cand > Len(candidates) \/ tradesExecuted >= MaxTradesPerCycle)
    /\ CycleEnds("completed")
    /\ lastOrder' = NoOrder
    /\ UNCHANGED <<pmVars, regime, cycles, broker, bought, tierSells, sizeVars, regimeVars, orderVars, processVars, trigger,
                   scoreVars, apiVars, manageVars, legacyVars, filterVars, adviceVars,
                   retryVars>>

Init == PmInit /\ \E b \in [Symbols -> BrokerQuantities] : TraderInit(b)

\* cycles in which new buys are not allowed: start() returns after
\* manageExistingPositions
Next ==
    \/ StartCycle
    \/ RegimeReturns
    \/ BalanceReturns
    \/ ManageHolding
    \/ ManageDone

Spec == Init /\ [][Next]_vars

(***************************************************************************)
(* analyzeAndTrade: one pass over the candidates, entered with 17 or 19    *)
(* holdings for which no quote came in manageExistingPositions             *)
(***************************************************************************)
\* the tickers with a quote and a volatility analysis, in descending order of
\* volatility score: [symbol, price, atr, atrPercent in tenths]
CandidatePool ==
    <<[symbol |-> Tickers[18], price |-> 100, atr |-> 1, atrPercent |-> 10],
      [symbol |-> Tickers[19], price |-> 100, atr |-> 2, atrPercent |-> 20],
      [symbol |-> Tickers[20], price |-> 100, atr |-> 2, atrPercent |-> 20],
      [symbol |-> Tickers[21], price |-> 100, atr |-> 4, atrPercent |-> 40],
      [symbol |-> Tickers[22], price |-> 200, atr |-> 4, atrPercent |-> 20],
      [symbol |-> Tickers[23], price |-> 100, atr |-> 2, atrPercent |-> 20]>>

BuyHeldCounts == {17, 19}
BuyHeldPrices == {10, 430}
BuyPowers == {10000}

InitBuy ==
    /\ PmInit
    /\ isTrading = TRUE
    /\ pc = "trade"
    /\ regime = BuyRegime
    /\ \E n \in BuyHeldCounts, hp \in BuyHeldPrices :
           /\ holdings = HeldList(n, 1, hp)
           /\ idx = n + 1
    /\ cycles = 1
    /\ broker = [s \in Symbols |-> 0]
    /\ bought = [s \in Symbols |-> 0]
    /\ lastOrder = NoOrder
    /\ tierSells = [s \in Symbols |-> NoTakeProfits]
    /\ sized = NoSizing
    /\ gate = NoGate
    /\ \E power \in BuyPowers :
           /\ buyingPower = power
           /\ remainingBuyingPower = power
           /\ candidates = FilterByVolatility(CandidatePool, power)
    /\ cand = 1
    /\ tradesExecuted = 0
    /\ trigger = "started"
    /\ running = 1
    /\ lastExit = ""
    /\ ServicesInit(StartTime, DefaultMode)

NextBuy ==
    \/ AnalyzeCandidate
    \/ TradeDone

SpecBuy == InitBuy /\ [][NextBuy]_vars

(***************************************************************************)
(* The whole cycle, with triggers arriving at any time                     *)
(***************************************************************************)
\* [...new Set(list)]: the first occurrence of each element, in order
RECURSIVE Unique(_)
Unique(list) ==
    IF list = <<>> THEN <<>>
    ELSE LET front == Unique(SubSeq(list, 1, Len(list) - 1))
             x == list[Len(list)]
         IN  IF Includes(front, x) THEN front ELSE Append(front, x)

\* (variant: the lists are concatenated as they are)
GetAllTickers_NoDedup(sp500, nasdaq100, budgetGrowth) ==
    sp500 \o nasdaq100 \o budgetGrowth

\* _getAllTickers
GetAllTickers(sp500, nasdaq100, budgetGrowth) ==
    Unique(sp500 \o nasdaq100 \o budgetGrowth)

\* config.tickers: the S&P 500 list names the symbols of nasdaq100 too
CycleSp500 == <<"AAPL", "MSFT">>
CycleNasdaq100 == <<"AAPL", "MSFT", "AMZN">>

\* the quote and the volatility analysis of a ticker
CycleCandidate(symbol) ==
    [symbol |-> symbol, price |-> 100, atr |-> 2,
     atrPercent |-> IF symbol = "MSFT" THEN 10 ELSE 20]

\* the tickers of the cycle with their quote and volatility analysis
CyclePool ==
    LET allTickers == GetAllTickers(CycleSp500, CycleNasdaq100, <<>>)
    IN  [i \in 1..Len(allTickers) |-> CycleCandidate(allTickers[i])]

\* what filterByVolatility is given: the tickers of the cycle, or none when no
\* ticker has a quote and a volatility analysis
CyclePools == {CyclePool, <<>>}

\* what getMarketRegime can return to the cycle
CycleRegimes == Regimes \cup {BuyRegime}

CyclePowers == {5, 10000}
CycleQuotes == {103}

InitCycle == PmInit /\ TraderInit([s \in Symbols |-> IF s = "MSFT" THEN 20 ELSE 0])

NextCycle ==
    \/ StartCycle
    \/ StartWhileTrading
    \/ RegimeReturnsOf(CycleRegimes)
    \/ BalanceReturnsWith(CyclePowers)
    \/ ManageHoldingAt(CycleQuotes)
    \/ ManageDone
    \/ FilterReturns(CyclePools)
    \/ AnalyzeCandidate
    \/ TradeDone

SpecCycle == InitCycle /\ [][NextCycle]_vars

\* every external call the cycle waits for returns, and the steps after it run
FairCycle ==
    /\ InitCycle
    /\ [][NextCycle]_vars
    /\ WF_vars(RegimeReturnsOf(CycleRegimes))
    /\ WF_vars(BalanceReturnsWith(CyclePowers))
    /\ WF_vars(ManageHoldingAt(CycleQuotes))
    /\ WF_vars(ManageDone)
    /\ WF_vars(FilterReturns(CyclePools))
    /\ WF_vars(AnalyzeCandidate)
    /\ WF_vars(TradeDone)

(***************************************************************************)
(* The process (src/src/index-enhanced.js): the cron callback and the      *)
(* signal handlers, with the cycle taken at the granularity of the await   *)
(* of placeOrder in executeSell.  New buys are not allowed here.           *)
(***************************************************************************)
\* the time in Seoul a cron tick reads
KstTimes == {[hour |-> 6, minute |-> 9], [hour |-> 6, minute |-> 10],
             [hour |-> 23, minute |-> 30]}

\* if (currentHour === 6 && currentMinute >= 10)
ShutdownDue(kst) == kst.hour = 6 /\ kst.minute >= 10

\* process.exit(0) is called without a look at enhancedTrader.isTrading
ExitAllowed == TRUE

\* process.exit(0) on the shutdown path
ProcessExit(path) ==
    /\ alive
    /\ ExitAllowed
    /\ alive' = FALSE
    /\ exitPath' = path
    /\ UNCHANGED <<pmVars, tradeVars, sizeVars, regimeVars, orderVars, pending, scoreVars,
                   apiVars, manageVars, legacyVars, filterVars, adviceVars, retryVars>>

\* the cron callback, every minute: shutdown from 06:10 in Seoul,
\* enhancedTrader.start() otherwise
CronTick ==
    /\ alive
    /\ \E kst \in KstTimes :
        IF ShutdownDue(kst)
        THEN ProcessExit("cron")
        ELSE StartCycle \/ StartWhileTrading

\* process.on('SIGINT', ...)
Sigint == ProcessExit("SIGINT")

\* process.on('SIGTERM', ...)
Sigterm == ProcessExit("SIGTERM")

\* one iteration of the loop of manageExistingPositions up to the await of
\* placeOrder in executeSell: the brokerage has the order and has accepted it
\* or not; an iteration that places no order is complete
ManageHoldingSends(Q) ==
    /\ alive
    /\ pc = "manage"
    /\ idx <= Len(holdings)
    /\ LET holding == holdings[idx]
           symbol == holding.symbol
       IN  \E quote \in {Quote(p) : p \in Q} \cup {NoQuote}, orderOk \in BOOLEAN,
              shouldSell \in BOOLEAN, t \in Times :
            IF quote = NoQuote
            THEN /\ idx' = idx + 1
                 /\ managed' = ManagedNoQuote(symbol)
                 /\ UNCHANGED <<positions, disk, saveOk, broker, tierSells, pending, pc,
                                sellOrders>>
            ELSE LET registered ==
                         IF HasPosition(PmOf, symbol) THEN PmOf
                         ELSE AddPosition(PmOf, symbol, holding.avgPrice, holding.qty,
                                          DefaultScore, t, TRUE)
                     status == UpdatePrice(registered, symbol, quote.price, TRUE)
                     decision == SellDecision(holding, status.result, shouldSell)
                     order == [symbol |-> symbol, side |-> "SELL", qty |-> decision.qty,
                               reason |-> decision.reason, ok |-> orderOk]
                 IN  /\ SetPm(status.pm)
                     /\ managed' = Managed(symbol, status.result, decision)
                     /\ sellOrders' = SellOrdersAfter(sellOrders, symbol, decision)
                     /\ IF decision.sell
                        THEN /\ pending' = [order |-> order, price |-> quote.price]
                             /\ broker' = [broker EXCEPT
                                              ![symbol] = IF orderOk THEN @ - decision.qty
                                                          ELSE @]
                             /\ pc' = "selling"
                             /\ UNCHANGED <<idx, tierSells>>
                        ELSE /\ idx' = idx + 1
                             /\ tierSells' = [tierSells EXCEPT ![symbol] =
                                    TierSellsAfter(@, status.pm.positions[symbol],
                                                   quote.price, NoOrder, broker[symbol])]
                             /\ UNCHANGED <<broker, pending, pc>>
    /\ lastOrder' = NoOrder
    /\ UNCHANGED <<last, tpReturned, scen, isTrading, regime, holdings, cycles, bought,
                   sizeVars, regimeVars, orderVars, alive, exitPath, buyVars, guardVars,
                   scoreVars, apiVars, legacyVars, filterVars, adviceVars, retryVars>>

\* placeOrder returns in executeSell: the record is removed when the order
\* was accepted, and the iteration is complete
SellReturns ==
    /\ alive
    /\ pc = "selling"
    /\ LET order == pending.order
           symbol == order.symbol
       IN  /\ tierSells' = [tierSells EXCEPT ![symbol] =
                  TierSellsAfter(@, positions[symbol], pending.price, order,
                                 broker[symbol])]
           /\ SetPm(ExecuteSell(PmOf, symbol, order.ok, TRUE))
           /\ lastOrder' = order
    /\ pending' = NoPending
    /\ idx' = idx + 1
    /\ pc' = "manage"
    /\ UNCHANGED <<last, tpReturned, scen, isTrading, regime, holdings, cycles, broker,
                   bought, sizeVars, regimeVars, orderVars, alive, exitPath, buyVars,
                   guardVars, scoreVars, apiVars, manageVars, legacyVars, filterVars,
                   adviceVars, retryVars>>

ShutdownQuotes == {97, 100, 105}

InitShutdown == PmInit /\ TraderInit([s \in Symbols |-> IF s = "MSFT" THEN 20 ELSE 0])

NextShutdown ==
    \/ CronTick
    \/ Sigint
    \/ Sigterm
    \/ (alive /\ RegimeReturns)
    \/ (alive /\ BalanceReturns)
    \/ ManageHoldingSends(ShutdownQuotes)
    \/ SellReturns
    \/ (alive /\ ManageDone)

SpecShutdown == InitShutdown /\ [][NextShutdown]_vars

(***************************************************************************)
(* calculateScore under arbitrary arguments                                *)
(***************************************************************************)
Technical(signals, indicators, currentPrice, score) ==
    [present |-> TRUE, signals |-> signals, indicators |-> indicators,
     currentPrice |-> currentPrice, score |-> score]

Indicators(ma5, ma10, ma20, macd, histogram) ==
    [present |-> TRUE, ma5 |-> ma5, ma10 |-> ma10, ma20 |-> ma20, macd |-> macd,
     histogram |-> histogram]

TechnicalInputs ==
    {NoTechnical,
     Technical({}, NoIndicators, 100, 0),
     Technical({"MACD_BULLISH", "BB_OVERSOLD", "RSI_OVERSOLD", "MA_UPTREND"},
               Indicators(110, 105, 100, TRUE, 1), 115, 35),
     Technical({"MACD_BULLISH", "BB_OVERSOLD", "RSI_OVERSOLD"},
               Indicators(110, 105, 100, TRUE, 1), 115, 25),
     Technical({"MACD_BEARISH", "BB_OVERBOUGHT", "RSI_OVERBOUGHT"},
               Indicators(100, 105, 110, TRUE, -1), 95, -25),
     Technical({"MACD_BEARISH", "BB_OVERBOUGHT", "RSI_OVERBOUGHT"}, NoIndicators, 95,
               -25),
     Technical({"MACD_REVERSAL", "MACD_BEARISH"}, Indicators(110, 105, 0, FALSE, 0),
               100, 5),
     Technical({"MACD_BULLISH", "MACD_BEARISH", "RSI_OVERBOUGHT"},
               Indicators(100, 105, 100, TRUE, 0), 100, 0),
     Technical({"MA_UPTREND"}, Indicators(0, 0, 100, TRUE, -1), 95, 10)}

FundamentalInputs ==
    {NoFundamental,
     [present |-> TRUE, peRatio |-> 0, pegRatio |-> 0],
     [present |-> TRUE, peRatio |-> 10, pegRatio |-> 5],
     [present |-> TRUE, peRatio |-> 20, pegRatio |-> 10],
     [present |-> TRUE, peRatio |-> 35, pegRatio |-> 20],
     [present |-> TRUE, peRatio |-> -5, pegRatio |-> -10]}

NewsInputs ==
    {NoNews} \cup
    {[present |-> TRUE, sentiment |-> s, headlineCount |-> n] :
        s \in {"POSITIVE", "NEGATIVE", "NEUTRAL"}, n \in {0, 1, 3, 5}}

VolatilityInputs ==
    {NoVolatility} \cup
    {[present |-> TRUE, atrPercent |-> a, volumeSpike |-> v] :
        a \in {5, 10, 20, 30}, v \in {0, 20, 25}}

TimeframeInputs ==
    {NoTimeframes} \cup
    {[present |-> TRUE, hourlyTrend |-> h, dailyTrend |-> d] :
        h \in {"UP", "DOWN"}, d \in {"UP", "DOWN", "NEUTRAL"}}

\* The screener keeps no state between calls (its weights and thresholds are
\* set once in the constructor): one call covers every call.
CalculateScoreCall ==
    /\ ~scored.called
    /\ \E t \in TechnicalInputs, f \in FundamentalInputs, n \in NewsInputs,
          v \in VolatilityInputs, m \in TimeframeInputs :
           /\ scored' = [called |-> TRUE, technicalData |-> t, fundamentalData |-> f,
                         newsData |-> n, volatilityData |-> v,
                         multiTimeframeData |-> m,
                         result |-> CalculateScore(t, f, n, v, m)]
           /\ UNCHANGED <<pmVars, tradeVars, sizeVars, regimeVars, orderVars,
                          processVars, apiVars, manageVars, legacyVars, filterVars,
                          adviceVars, retryVars>>

NextScore == CalculateScoreCall

SpecScore == InitPM /\ [][NextScore]_vars

(***************************************************************************)
(* KisApi.getAuthToken under calls                                         *)
(***************************************************************************)
MaxAuthRequests == 3         \* tokens the server issues in a run
MaxTokenElapsed == 6         \* minutes a run lasts

ExpiresIn == {1, 3, 5}       \* expires_in of a response, in minutes

\* token.json as an earlier process left it: absent, unreadable, expired at
\* boot, or valid for another two minutes
EarlierRunLeftFile ==
    /\ ~lastAuth.called
    /\ now = boot
    /\ tokenFile = NoTokenFile
    /\ tokenFile' \in {CorruptTokenFile, TokenFile(FileToken, boot - 1),
                       TokenFile(FileToken, boot), TokenFile(FileToken, boot + 2)}
    /\ UNCHANGED <<pmVars, tradeVars, sizeVars, regimeVars, orderVars, processVars,
                   scoreVars, accessToken, tokenExpiry, lastAuth, issued, manageVars,
                   legacyVars, filterVars, adviceVars, retryVars>>

\* a call of getAuthToken; the calls of one process follow one another (every
\* caller awaits getHeaders)
GetAuthTokenCall ==
    \E ok \in BOOLEAN, expiresIn \in ExpiresIn, writeOk \in BOOLEAN :
        LET response == [ok |-> ok, access_token |-> issued.count + 1,
                         expires_in |-> expiresIn]
            r == GetAuthToken(accessToken, tokenExpiry, tokenFile, now, response,
                              writeOk)
        IN  /\ issued.count < MaxAuthRequests
            /\ accessToken' = r.accessToken
            /\ tokenExpiry' = r.tokenExpiry
            /\ tokenFile' = r.file
            /\ lastAuth' = [called |-> TRUE, time |-> now, source |-> r.source,
                            requested |-> r.requested, returned |-> r.returned,
                            memoryValid |->
                                MemoryTokenValid(accessToken, tokenExpiry, now),
                            fileValid |-> FileTokenValid(tokenFile, now),
                            expires_in |-> IF r.source = "server" THEN expiresIn
                                           ELSE 0]
            /\ issued' = IF r.source = "server"
                         THEN [count |-> issued.count + 1,
                               token |-> response.access_token, time |-> now,
                               expires_in |-> expiresIn]
                         ELSE issued
            /\ UNCHANGED <<pmVars, tradeVars, sizeVars, regimeVars, orderVars,
                           processVars, scoreVars, manageVars, legacyVars, filterVars,
                           adviceVars, retryVars>>

\* the clock moves on by a minute
TokenAdvance ==
    /\ now - boot < MaxTokenElapsed
    /\ now' = now + 1
    /\ UNCHANGED <<pmVars, tradeVars, sizeVars, boot, cache, lastRegime, determined,
                   orderVars, processVars, scoreVars, apiVars, manageVars, legacyVars,
                   filterVars, adviceVars, retryVars>>

NextToken ==
    \/ EarlierRunLeftFile
    \/ GetAuthTokenCall
    \/ TokenAdvance

SpecToken == InitPM /\ [][NextToken]_vars

(***************************************************************************)
(* Trader.start: the passes of the restart loop                            *)
(***************************************************************************)
MaxStarts == 2               \* calls of Trader.start in a run
MaxPasses == 4               \* the count of passes stops here
MaxLegacyTrades == 2         \* orders the account can place in a run

\* an order placed more than five minutes ago is still open at the brokerage
OrderStaysUnfilled ==
    /\ ~trader.isTrading
    /\ ~unfilledOrder.open
    /\ starts = 0
    /\ \E exchange \in {"NASD", "NYSE"} :
           unfilledOrder' = [open |-> TRUE, exchange |-> exchange]
    /\ UNCHANGED <<pmVars, tradeVars, sizeVars, regimeVars, orderVars, processVars,
                   scoreVars, apiVars, manageVars, trader, starts, legacyTrades,
                   filterVars, adviceVars, retryVars>>

\* start() past the guard: isTrading = true, restartRequired = false
TraderStart ==
    /\ ~trader.isTrading
    /\ starts < MaxStarts
    /\ starts' = starts + 1
    /\ trader' = [NoTrader EXCEPT !.isTrading = TRUE, !.pc = "balance"]
    /\ UNCHANGED <<pmVars, tradeVars, sizeVars, regimeVars, orderVars, processVars,
                   scoreVars, apiVars, manageVars, unfilledOrder, legacyTrades,
                   filterVars, adviceVars, retryVars>>

\* the end of start(): finally { this.isTrading = false }
TraderEnds(exit) ==
    trader' = [trader EXCEPT !.isTrading = FALSE, !.pc = "idle", !.exit = exit]

\* do { restartRequired = false; accountData = await getBalance(): a pass
\* begins; getBalance returning null makes accountData.buyingPower throw
PassBegins ==
    /\ trader.pc = "balance"
    /\ \E failed \in BOOLEAN :
        IF failed
        THEN TraderEnds("threw")
        ELSE trader' = [trader EXCEPT !.pc = "unfilled", !.restartRequired = FALSE,
                                      !.traded = FALSE, !.cancelled = FALSE,
                                      !.passes = Min(@ + 1, MaxPasses)]
    /\ UNCHANGED <<pmVars, tradeVars, sizeVars, regimeVars, orderVars, processVars,
                   scoreVars, apiVars, manageVars, unfilledOrder, starts, legacyTrades,
                   filterVars, adviceVars, retryVars>>

\* kisApi.cancelOrder(order.orderNo, order.symbol, 0): exchange = 'NASD'
CancelExchange(order) == "NASD"

\* cancelOrder: the brokerage cancels an order of the exchange it is told, if
\* the request gets through; null otherwise
CancelOrder(order, exchange, requestOk) ==
    IF requestOk /\ exchange = order.exchange THEN NoUnfilledOrder ELSE order

\* the check of unfilled orders: getUnfilledOrders returns [] on an error; an
\* order older than five minutes is cancelled and restartRequired is set,
\* whatever cancelOrder returned
UnfilledChecked ==
    /\ trader.pc = "unfilled"
    /\ \E listed \in BOOLEAN, requestOk \in BOOLEAN :
        IF listed /\ unfilledOrder.open
        THEN /\ unfilledOrder' =
                    CancelOrder(unfilledOrder, CancelExchange(unfilledOrder), requestOk)
             /\ trader' = [trader EXCEPT !.pc = "tickers", !.restartRequired = TRUE,
                                         !.cancelled = TRUE]
        ELSE /\ trader' = [trader EXCEPT !.pc = "tickers"]
             /\ UNCHANGED unfilledOrder
    /\ UNCHANGED <<pmVars, tradeVars, sizeVars, regimeVars, orderVars, processVars,
                   scoreVars, apiVars, manageVars, starts, legacyTrades, filterVars,
                   adviceVars, retryVars>>

\* the loop over the tickers: it breaks at the first BUY or SELL that
\* placeOrder accepted, with restartRequired set, or runs to its end
TickersProcessed ==
    /\ trader.pc = "tickers"
    /\ \E tradeResult \in {"BUY", "SELL", "null"} :
        IF tradeResult # "null"
        THEN /\ legacyTrades < MaxLegacyTrades
             /\ legacyTrades' = legacyTrades + 1
             /\ trader' = [trader EXCEPT !.pc = "passEnd", !.restartRequired = TRUE,
                                         !.traded = TRUE]
        ELSE /\ trader' = [trader EXCEPT !.pc = "passEnd"]
             /\ UNCHANGED legacyTrades
    /\ UNCHANGED <<pmVars, tradeVars, sizeVars, regimeVars, orderVars, processVars,
                   scoreVars, apiVars, manageVars, unfilledOrder, starts, filterVars,
                   adviceVars, retryVars>>

\* } while (restartRequired)
PassEnds ==
    /\ trader.pc = "passEnd"
    /\ IF trader.restartRequired
       THEN trader' = [trader EXCEPT !.pc = "balance"]
       ELSE TraderEnds("completed")
    /\ UNCHANGED <<pmVars, tradeVars, sizeVars, regimeVars, orderVars, processVars,
                   scoreVars, apiVars, manageVars, unfilledOrder, starts, legacyTrades,
                   filterVars, adviceVars, retryVars>>

NextTrader ==
    \/ OrderStaysUnfilled
    \/ TraderStart
    \/ PassBegins
    \/ UnfilledChecked
    \/ TickersProcessed
    \/ PassEnds

SpecTrader == InitPM /\ [][NextTrader]_vars

\* every call start() awaits returns, and the statements after it run
FairTrader ==
    /\ SpecTrader
    /\ WF_vars(PassBegins)
    /\ WF_vars(UnfilledChecked)
    /\ WF_vars(TickersProcessed)
    /\ WF_vars(PassEnds)

(***************************************************************************)
(* The cycle with filterByVolatility at the granularity of its fetches.    *)
(* The callbacks of one batch are alike: the state counts those in flight. *)
(***************************************************************************)
BatchSize == 20              \* filterByVolatility: batchSize
MaxResults == 50             \* filterByVolatility: results.length >= 50, slice(0, 50)

\* (variant: one batch holds all the tickers that are left)
Batch_Unbounded(tickers, i) == SubSeq(tickers, i, Len(tickers))

\* tickers.slice(i, i + batchSize), i counted from 1
Batch(tickers, i) == SubSeq(tickers, i, Min(i + BatchSize - 1, Len(tickers)))

\* the loop state of the running cycle
FilterOf == IF filterState.cycle = cycles THEN filterState ELSE FreshFilter(cycles)

\* the loop takes the next batch and Promise.all starts a callback for each of
\* its symbols
BatchStarts ==
    /\ pc = "filter"
    /\ FilterOf.inFlight = 0
    /\ FilterOf.i <= Len(Tickers)
    /\ FilterOf.results < MaxResults
    /\ filterState' = [FilterOf EXCEPT !.inFlight = Len(Batch(Tickers, FilterOf.i)),
                                       !.i = @ + BatchSize,
                                       !.batches = @ + 1]
    /\ UNCHANGED <<pmVars, tradeVars, sizeVars, regimeVars, orderVars, processVars,
                   scoreVars, apiVars, manageVars, legacyVars, adviceVars, retryVars>>

\* one callback settles, with a candidate or with null (no quote, a price out
\* of range, too little volatility, an exception)
FetchSettles ==
    /\ pc = "filter"
    /\ FilterOf.inFlight > 0
    /\ \E kept \in BOOLEAN :
           filterState' = [FilterOf EXCEPT !.inFlight = @ - 1,
                                           !.results = IF kept THEN @ + 1 ELSE @]
    /\ UNCHANGED <<pmVars, tradeVars, sizeVars, regimeVars, orderVars, processVars,
                   scoreVars, apiVars, manageVars, legacyVars, adviceVars, retryVars>>

\* the loop is over, by its end or by the break at 50 results: the results
\* are sorted and cut, and start() goes on as after FilterReturns
FilterFinishes ==
    /\ FilterOf.inFlight = 0
    /\ (FilterOf.i > Len(Tickers) \/ FilterOf.results >= MaxResults)
    /\ FilterReturns({pool \in {CyclePool, <<>>} :
                         Len(FilterByVolatility(pool, buyingPower)) <= FilterOf.results})

FilterPowers == {10000}

NextFilter ==
    \/ StartCycle
    \/ StartWhileTrading
    \/ RegimeReturnsOf({BuyRegime})
    \/ BalanceReturnsWith(FilterPowers)
    \/ ManageHoldingAt(CycleQuotes)
    \/ ManageDone
    \/ BatchStarts
    \/ FetchSettles
    \/ FilterFinishes
    \/ AnalyzeCandidate
    \/ TradeDone

SpecFilter == InitCycle /\ [][NextFilter]_vars

(***************************************************************************)
(* getRecommendation and checkSellSignal under calls                       *)
(***************************************************************************)
NormalizedScores == 0..100
BarCounts == {49, 50}

\* the analyses checkSellSignal can get from the signal monitor
SignalAnalyses ==
    TechnicalInputs \cup
    {Technical({"MACD_BEARISH"}, Indicators(100, 105, 110, TRUE, -1), 95, -10),
     Technical({"MACD_BEARISH", "BB_OVERBOUGHT"}, Indicators(100, 105, 110, TRUE, -1),
               95, -18)}

GetRecommendationCall ==
    \E score \in NormalizedScores :
        /\ advised' = [NoAdvised EXCEPT !.op = "getRecommendation", !.score = score,
                          !.recommendation = GetRecommendation(score)]
        /\ UNCHANGED <<pmVars, tradeVars, sizeVars, regimeVars, orderVars, processVars,
                       scoreVars, apiVars, manageVars, legacyVars, filterVars,
                       retryVars>>

CheckSellSignalCall ==
    \E bars \in BarCounts, threw \in BOOLEAN, analysis \in SignalAnalyses,
       f \in FundamentalInputs :
        LET answer == CheckSellSignal(bars, threw, analysis, f)
        IN  /\ advised' = [op |-> "checkSellSignal", score |-> answer.score,
                           recommendation |-> answer.recommendation,
                           confidence |-> answer.confidence,
                           scoredIt |-> answer.scoredIt,
                           shouldSell |-> answer.shouldSell]
            /\ UNCHANGED <<pmVars, tradeVars, sizeVars, regimeVars, orderVars,
                           processVars, scoreVars, apiVars, manageVars, legacyVars,
                           filterVars, retryVars>>

NextAdvice == GetRecommendationCall \/ CheckSellSignalCall

SpecAdvice == InitPM /\ [][NextAdvice]_vars

(***************************************************************************)
(* Cycles that manage one holding whose SELL orders may fail, with the     *)
(* history of the attempts kept                                            *)
(***************************************************************************)
RetryQuotes == {97, 103, 105, 110}

\* positions.json as an earlier run left it: MSFT was registered at 100 and
\* updatePrice was given 110, which activated the trailing stop and fired the
\* third take-profit level; the SELL order failed
EarlierRunLeftPositions ==
    LET registered == AddPosition(PmState(<<>>, NoFile, TRUE), "MSFT", AvgPrice("MSFT"),
                                  20, DefaultScore, 0, TRUE)
    IN  UpdatePrice(registered, "MSFT", 110, TRUE).pm.disk

PositionFiles == {NoFile, EarlierRunLeftPositions}

InitRetry ==
    /\ disk \in PositionFiles
    /\ positions = LoadPositions(disk)
    /\ saveOk = TRUE
    /\ last = Call("new", "", 0, "", FALSE, "")
    /\ tpReturned = [s \in Symbols |-> NoTakeProfits]
    /\ scen = [s \in Symbols |-> -1]
    /\ TraderInit([s \in Symbols |-> IF s = "MSFT" THEN 20 ELSE 0])

ManageHoldingKept == ManageHoldingRecording(RetryQuotes, TRUE)

NextRetry ==
    \/ StartCycle
    \/ RegimeReturns
    \/ BalanceReturns
    \/ ManageHoldingKept
    \/ ManageDone

SpecRetry == InitRetry /\ [][NextRetry]_vars

(***************************************************************************)
(* The MarketRegimeFilter under calls at any minute around the session     *)
(* boundaries                                                              *)
(***************************************************************************)
MaxElapsed == 6              \* minutes a run lasts

BootTimes == {566, 626, 896, 956, 1196}     \* four minutes before a boundary
VixFetches == {FetchFailed, VixQuote(12), VixQuote(35)}
SpyFetches == {FetchFailed, SpyHistory("NEUTRAL"), SpyHistory("BEARISH")}

\* the clock moves on by a minute
Advance ==
    /\ now - boot < MaxElapsed
    /\ now' = now + 1
    /\ UNCHANGED <<pmVars, tradeVars, sizeVars, boot, cache, lastRegime, determined,
                   orderVars, processVars, scoreVars, apiVars, manageVars, legacyVars,
                   filterVars, adviceVars, retryVars>>

GetMarketRegimeCall ==
    \E vixFetch \in VixFetches, spyFetch \in SpyFetches :
        LET r == GetMarketRegime(cache, now, vixFetch, spyFetch)
        IN  /\ cache' = r.cache
            /\ lastRegime' = [called |-> TRUE, time |-> now, source |-> r.source,
                              vixFailed |-> r.source # "cache" /\ vixFetch.failed,
                              spyFailed |-> r.source # "cache" /\ spyFetch.failed,
                              regime |-> r.regime]
            /\ UNCHANGED <<pmVars, tradeVars, sizeVars, now, boot, determined,
                           orderVars, processVars, scoreVars, apiVars, manageVars,
                           legacyVars, filterVars, adviceVars, retryVars>>

InitRegime ==
    /\ PmInit
    /\ \E t \in BootTimes : TraderInitIn([s \in Symbols |-> 0], t, DefaultMode)

NextRegime ==
    \/ Advance
    \/ GetMarketRegimeCall

SpecRegime == InitRegime /\ [][NextRegime]_vars

(***************************************************************************)
(* _determineRegime under arbitrary arguments                              *)
(***************************************************************************)
VixValues == {10, 14, 15, 19, 20, 24, 25, 29, 30, 35}
Trends == {"BULLISH", "NEUTRAL", "BEARISH", "UNKNOWN"}
Sessions == {"PREMARKET", "OPENING", "CORE", "POWER_HOUR", "AFTERMARKET", "CLOSED"}

DetermineRegimeCall ==
    \E vix \in VixValues, trend \in Trends, session \in Sessions :
        /\ determined' = [called |-> TRUE, vix |-> vix, trend |-> trend,
                          session |-> session,
                          regime |-> DetermineRegime(vix, trend, session)]
        /\ UNCHANGED <<pmVars, tradeVars, sizeVars, now, boot, cache, lastRegime,
                       orderVars, processVars, scoreVars, apiVars, manageVars,
                       legacyVars, filterVars, adviceVars, retryVars>>

NextDetermine == DetermineRegimeCall

SpecDetermine == InitPM /\ [][NextDetermine]_vars

(***************************************************************************)
(* placeOrder under either trading mode                                    *)
(***************************************************************************)
TradingModes == {"REAL", "PAPER"}
OrderSides == {"BUY", "SELL"}
OrderQuantities == {1, 5, 20}
OrderPrices == {10, 100}

PlaceOrderCall ==
    \E s \in Symbols, side \in OrderSides, q \in OrderQuantities, p \in OrderPrices,
       authOk \in BOOLEAN, hashOk \in BOOLEAN, postOk \in BOOLEAN :
        /\ placed' = [called |-> TRUE, symbol |-> s, side |-> side, qty |-> q,
                      price |-> p,
                      result |-> PlaceOrder(mode, s, side, q, p, authOk, hashOk, postOk)]
        /\ UNCHANGED <<pmVars, tradeVars, sizeVars, regimeVars, mode, processVars, scoreVars,
                   apiVars, manageVars, legacyVars, filterVars, adviceVars, retryVars>>

\* config.trading.mode is read from TRADING_MODE when the process starts
InitOrder ==
    /\ PmInit
    /\ \E m \in TradingModes : TraderInitIn([s \in Symbols |-> 0], StartTime, m)

NextOrder == PlaceOrderCall

SpecOrder == InitOrder /\ [][NextOrder]_vars

(***************************************************************************)
(* Properties of the PositionManager                                       *)
(***************************************************************************)
Actions ==
    {"HOLD", "STOP_LOSS", "TRAILING_STOP", "TAKE_PROFIT_L1", "TAKE_PROFIT_L2",
     "TAKE_PROFIT_L3"}

\* the symbols whose record a step keeps
Kept == DOMAIN positions \cap DOMAIN positions'

\* C1: once trailingStopActive is true, no updatePrice call lowers
\* currentStopLoss: its value after the call is >= its value before.
C1_StopNeverMovesDown ==
    [][last'.op = "updatePrice" =>
        \A s \in Kept :
            positions[s].trailingStopActive =>
                positions'[s].currentStopLoss >= positions[s].currentStopLoss]_vars

\* an armed position updated at a price below its high and above the
\* activation threshold: the trailing step ran and the stop stayed at the floor
\* of the high
C1_Witness ==
    /\ last.op = "updatePrice"
    /\ last.symbol \in DOMAIN positions
    /\ LET pos == positions[last.symbol]
       IN  /\ pos.trailingStopActive
           /\ pos.currentStopLoss = pos.highestPrice * (1000 - TrailingPermille)
           /\ last.price < pos.highestPrice
           /\ ProfitAtLeast(pos, last.price, ActivationProfit)
           /\ last.action = "HOLD"

NoDuplicates(seq) == \A i, j \in 1..Len(seq) : seq[i] = seq[j] => i = j

\* C2: between addPosition and removal, each level 1, 2, 3 occurs at most once
\* in takeProfitLevelsHit, and each of TAKE_PROFIT_L1..L3 is returned by at most
\* one updatePrice call.
C2_LevelsFireOnce ==
    \A s \in DOMAIN positions :
        /\ NoDuplicates(positions[s].takeProfitLevelsHit)
        /\ \A i \in 1..Len(positions[s].takeProfitLevelsHit) :
               positions[s].takeProfitLevelsHit[i] \in {1, 2, 3}
        /\ \A k \in {1, 2, 3} : tpReturned[s][k] <= 1

\* all three levels have fired once and a further update at +10% holds
C2_Witness ==
    /\ last.op = "updatePrice"
    /\ last.action = "HOLD"
    /\ last.symbol \in DOMAIN positions
    /\ Len(positions[last.symbol].takeProfitLevelsHit) = 3
    /\ \A k \in {1, 2, 3} : tpReturned[last.symbol][k] = 1
    /\ ProfitAtLeast(positions[last.symbol], last.price, TakeProfit[3].percent)

\* the take-profit actions the priority rule admits: a level not fired before
\* the call whose threshold the price reaches
AdmittedTakeProfits(before, price) ==
    { TakeProfitAction(k) : k \in { j \in {1, 2, 3} :
        /\ ProfitAtLeast(before, price, TakeProfit[j].percent)
        /\ ~Includes(before.takeProfitLevelsHit, j) } }

\* the actions the priority rule of the claim admits for an update
PriorityActions(before, after, price) ==
    IF (price - before.entryPrice) * 100 <= InitialStopLoss * before.entryPrice
    THEN {"STOP_LOSS"}
    ELSE IF after.trailingStopActive /\ price * 1000 <= after.currentStopLoss
    THEN {"TRAILING_STOP"}
    ELSE IF AdmittedTakeProfits(before, price) # {}
    THEN AdmittedTakeProfits(before, price)
    ELSE {"HOLD"}

\* C3: every updatePrice call on an existing position returns one of the six
\* actions, chosen by priority: STOP_LOSS when the return is <= -3%; otherwise
\* TRAILING_STOP when trailing is armed and price <= currentStopLoss; otherwise
\* a take-profit level that has not fired and whose threshold is reached;
\* otherwise HOLD.
C3_ExitPriority ==
    [][(last'.op = "updatePrice" /\ last'.symbol \in DOMAIN positions) =>
        /\ last'.symbol \in DOMAIN positions'
        /\ last'.action \in Actions
        /\ last'.action \in PriorityActions(positions[last'.symbol],
                                           positions'[last'.symbol], last'.price)
        \* armed and at or below the stop reads the same before and after the call
        /\ last'.action # "STOP_LOSS" =>
               (TrailingStopHit(positions[last'.symbol], last'.price)
                <=> TrailingStopHit(positions'[last'.symbol], last'.price))]_vars

\* a trailing-stop exit at a price that also reaches an unfired take-profit level
C3_Witness ==
    /\ last.op = "updatePrice"
    /\ last.action = "TRAILING_STOP"
    /\ last.symbol \in DOMAIN positions
    /\ ProfitAtLeast(positions[last.symbol], last.price, TakeProfit[2].percent)
    /\ ~Includes(positions[last.symbol].takeProfitLevelsHit, 2)

\* C4: with the default thresholds, addPosition at 100 followed by updatePrice
\* at 100, 102, 101, 98 returns HOLD, HOLD, HOLD, TRAILING_STOP; trailing arms
\* at 102 with currentStopLoss = 102 x 0.985 = 100.47.
C4_Scenario ==
    \A s \in Symbols :
        scen[s] >= 1 =>
            /\ s \in DOMAIN positions
            /\ (last.op = "updatePrice" /\ last.symbol = s) =>
                   last.action = Scenario.actions[scen[s]]
            /\ scen[s] = 1 => ~positions[s].trailingStopActive
            /\ scen[s] >= 2 => /\ positions[s].trailingStopActive
                               /\ positions[s].currentStopLoss = 100470

\* the scenario has run to its end
C4_Witness ==
    \E s \in Symbols :
        /\ scen[s] = 4
        /\ last.op = "updatePrice" /\ last.symbol = s /\ last.price = 98
        /\ last.action = "TRAILING_STOP"

C9_FileMatchesMemory ==
    saveOk => LoadPositions(disk) = positions

\* a stop-loss return whose write succeeded, with a watermark moved by the call
C9_Witness ==
    /\ last.op = "updatePrice"
    /\ last.action = "STOP_LOSS"
    /\ saveOk
    /\ disk.exists
    /\ positions[last.symbol].lowestPrice = last.price
    /\ Cardinality(DOMAIN positions) = 2

\* C10: syncPositions(null) and syncPositions(undefined) return normally.
C10_SyncNullReturns ==
    (last.op = "syncPositions" /\ last.arg \in {"null", "undefined"}) => ~last.threw

\* C11: after syncPositions(holdings) with a list, the stored symbols are
\* exactly the previously stored symbols that also appear in holdings: every
\* stale symbol is removed, none is added, every retained record is unchanged.
C11_SyncKeepsHeldOnly ==
    [][(last'.op = "syncPositions" /\ last'.arg = "list") =>
        /\ DOMAIN positions' = DOMAIN positions \cap last'.held
        /\ \A s \in DOMAIN positions' : positions'[s] = positions[s]]_vars

\* a sync that removed a stale record and kept an armed one, written to the file
C11_Witness ==
    /\ last.op = "syncPositions"
    /\ last.arg = "list"
    /\ last.stale # {}
    /\ \E s \in DOMAIN positions :
           /\ s \in last.held
           /\ positions[s].trailingStopActive
           /\ Len(positions[s].takeProfitLevelsHit) > 0
    /\ LoadPositions(disk) = positions

(***************************************************************************)
(* Properties of position sizing and exposure gating                       *)
(***************************************************************************)
\* C12: for 0 < price <= totalCapital, calculatePositionSize returns
\* quantity >= 1 and a position percent (value as % of totalCapital) within
\* [minPositionPercent, maxPositionPercent] = [1%, 5%].
C12_SizeWithinBounds ==
    (sized.called /\ 0 < sized.currentPrice /\ sized.currentPrice <= sized.totalCapital)
    => /\ sized.result.quantity >= 1
       /\ sized.result.percent.num >= 1 * sized.result.percent.den
       /\ sized.result.percent.num <= 5 * sized.result.percent.den

\* C13: within one analyzeAndTrade pass a BUY order is placed only if the
\* open-position count, counting the holdings at cycle start plus the buys
\* already executed in this pass, is below 20, and only if total exposure,
\* counting those earlier buys plus the proposed position, does not exceed 80%
\* of total capital.
C13_BuyWithinLimits ==
    [][lastOrder'.side = "BUY" =>
        /\ Len(holdings) + tradesExecuted < 20
        /\ (TotalValue(holdings) + (buyingPower - remainingBuyingPower)
            + lastOrder'.qty * candidates[cand].price) * 100
           <= 80 * TotalCapital(buyingPower, holdings)]_vars

\* C14: canAddPosition returns allowed = false whenever the number of holdings
\* is >= maxPositionsCount (20), for every total capital and every proposed
\* position value, including values that keep exposure below the ceiling.
C14_CountCapsPositions ==
    (gate.called /\ gate.count >= 20) => ~gate.result.allowed

\* exactly 20 holdings and an exposure far below the ceiling: refused for the
\* count
C14_Witness ==
    /\ gate.called
    /\ gate.count = 20
    /\ gate.totalCapital > 0
    /\ (gate.totalValue + gate.newPositionValue) * 100 < 80 * gate.totalCapital
    /\ ~gate.result.allowed
    /\ gate.result.reason = "Max positions"

(***************************************************************************)
(* Properties of the trading cycle                                         *)
(***************************************************************************)
\* C5: a position record is deleted only on a full exit: after an accepted
\* partial take-profit sell at tier 1 or tier 2 the record is still in the map,
\* with the tier in its takeProfitLevelsHit.
C5_PartialSellKeepsRecord ==
    (/\ lastOrder.ok
     /\ lastOrder.reason \in {"TAKE_PROFIT_L1", "TAKE_PROFIT_L2"}
     /\ broker[lastOrder.symbol] > 0)
    => /\ lastOrder.symbol \in DOMAIN positions
       /\ Includes(positions[lastOrder.symbol].takeProfitLevelsHit,
                   LevelOf(lastOrder.reason))

\* C6: while a holding stays open and the quote stays at or above the tier's
\* threshold, each take-profit tier causes at most one SELL order.
C6_TierSellsOnce ==
    \A s \in Symbols : \A k \in {1, 2, 3} : tierSells[s][k] <= 1

\* C7: the quantity sold when tier k fires is the tier's percentage of the
\* quantity the position was entered with, not of what is left of it.
C7_TierSellsShareOfEntry ==
    LevelOf(lastOrder.reason) # 0 =>
        lastOrder.qty = SellQty(bought[lastOrder.symbol],
                                TakeProfit[LevelOf(lastOrder.reason)].sellPercent)

\* C15: at most one trading cycle is active at any time: a start() call that
\* arrives while isTrading is true returns without fetching data, placing
\* orders, mutating positions or changing isTrading, and is not queued.
C15_OneCycleAtATime ==
    [][/\ running' <= 1
       /\ (isTrading /\ trigger' # trigger) =>
              /\ trigger' = "skipped"
              /\ UNCHANGED <<positions, disk, saveOk, isTrading, pc, regime, holdings,
                             idx, cycles, broker, bought, lastOrder, buyingPower,
                             candidates, cand, remainingBuyingPower, tradesExecuted,
                             running>>]_vars

\* a trigger was skipped while the cycle is inside analyzeAndTrade, after a BUY
C15_Witness ==
    /\ trigger = "skipped"
    /\ isTrading
    /\ running = 1
    /\ pc = "trade"
    /\ tradesExecuted = 1

\* C16: every cycle that starts eventually ends with isTrading = false,
\* whether it completes, returns early or throws, given that each external
\* call eventually returns.
C16_CycleEventuallyEnds == isTrading ~> ~isTrading

\* a cycle that threw (getBalance returned null) has ended with the flag
\* cleared, after an earlier cycle that ran to completion
C16_Witness ==
    /\ ~isTrading
    /\ pc = "idle"
    /\ lastExit = "threw"
    /\ cycles = 2
    /\ running = 0

(***************************************************************************)
(* Properties of the MarketRegimeFilter and of order placement             *)
(***************************************************************************)
\* C19: for every fear-index value, benchmark trend and session,
\* _determineRegime returns as positionSizeMultiplier the product of the factor
\* of the fear tier (0.3 from 30, 0.5 from 25, 0.75 from 20, 1.2 below 15, 1.0
\* otherwise) and the factor of the trend (0.5 BEARISH, 1.2 BULLISH, 1.0
\* otherwise), clamped to [0.2, 2.0]; fear-index 35 with a BEARISH benchmark
\* gives allowBuy = false and the multiplier 0.2.
C19_MultiplierIsClampedProduct ==
    determined.called =>
        LET vix == determined.vix
            fearFactor == IF vix >= 30 THEN 300
                          ELSE IF vix >= 25 THEN 500
                          ELSE IF vix >= 20 THEN 750
                          ELSE IF vix >= 15 THEN 1000
                          ELSE 1200
            trendTenths == CASE determined.trend = "BEARISH" -> 5
                             [] determined.trend = "BULLISH" -> 12
                             [] OTHER -> 10
            product == (fearFactor * trendTenths) \div 10
            clamped == IF product < 200 THEN 200
                       ELSE IF product > 2000 THEN 2000
                       ELSE product
        IN  /\ (fearFactor * trendTenths) % 10 = 0
            /\ determined.regime.positionSizeMultiplier = clamped
            /\ (vix = 35 /\ determined.trend = "BEARISH") =>
                   /\ ~determined.regime.allowBuy
                   /\ determined.regime.positionSizeMultiplier = 200

\* fear-index 35 with a BEARISH benchmark in the CORE session: 0.3 * 0.5 = 0.15
\* is raised to 0.2 and buying is off
C19_Witness ==
    /\ determined.called
    /\ determined.vix = 35
    /\ determined.trend = "BEARISH"
    /\ determined.session = "CORE"
    /\ determined.regime.regime = "EXTREME_FEAR"
    /\ determined.regime.positionSizeMultiplier = 200
    /\ ~determined.regime.allowBuy
    /\ determined.regime.allowSell

\* C17: when the fetch of the fear-index quote or of the benchmark history
\* fails, getMarketRegime returns the fail-safe default: allowBuy = false,
\* allowSell = true, positionSizeMultiplier = 0.5.
C17_FetchFailureGivesFailSafe ==
    (lastRegime.called /\ (lastRegime.vixFailed \/ lastRegime.spyFailed)) =>
        /\ ~lastRegime.regime.allowBuy
        /\ lastRegime.regime.allowSell
        /\ lastRegime.regime.positionSizeMultiplier = FailSafeMultiplier

\* C18: a regime returned while the session is OPENING or POWER_HOUR has
\* allowBuy = false, and one returned while the session is CLOSED or PREMARKET
\* has allowBuy = false and allowSell = false, whether it was computed by the
\* call, served from the cache or is the fail-safe default.
C18_SessionGatesEveryRegime ==
    lastRegime.called =>
        LET session == GetTradingSession(lastRegime.time)
        IN  /\ session \in {"OPENING", "POWER_HOUR"} => ~lastRegime.regime.allowBuy
            /\ session \in {"CLOSED", "PREMARKET"} =>
                   /\ ~lastRegime.regime.allowBuy
                   /\ ~lastRegime.regime.allowSell

\* C20: in PAPER mode placeOrder sends no order request to the brokerage (the
\* order is only logged); a request is sent only in REAL mode.
C20_PaperSendsNoOrder ==
    (placed.called /\ placed.result.transmitted) => mode = "REAL"

\* C21: the process is stopped only between cycles: the shutdown at 06:10 in
\* Seoul, SIGINT and SIGTERM never end the process while isTrading is set, so no
\* cycle is cut off between the placing of an order and the recording of its
\* effect in the position map.
C21_StoppedOnlyBetweenCycles ==
    ~alive => (~isTrading /\ pending = NoPending)

\* C22: a BUY order that fails in analyzeAndTrade adds no position record,
\* leaves remainingBuyingPower and tradesExecuted as they were, is not followed
\* by another order for the symbol in the cycle, and the loop goes on with the
\* next candidate; a SELL order that fails leaves the position record in place.
C22_FailedOrderChangesNothing ==
    [][/\ (pc = "trade" /\ trigger' = trigger /\ lastOrder'.side = "BUY"
           /\ ~lastOrder'.ok) =>
              /\ positions' = positions
              /\ disk' = disk
              /\ remainingBuyingPower' = remainingBuyingPower
              /\ tradesExecuted' = tradesExecuted
              /\ pc' = "trade"
              /\ cand' = cand + 1
              /\ \A i \in cand'..Len(candidates') :
                     candidates'[i].symbol # lastOrder'.symbol
       /\ (pc = "manage" /\ trigger' = trigger /\ lastOrder'.side = "SELL"
           /\ ~lastOrder'.ok) =>
              /\ lastOrder'.symbol \in DOMAIN positions'
              /\ pc' = "manage"
              /\ idx' = idx + 1]_vars

\* the BUY of the first candidate has failed: nothing is recorded or spent, and
\* the second candidate is next
C22_Witness ==
    /\ pc = "trade"
    /\ lastOrder.side = "BUY"
    /\ ~lastOrder.ok
    /\ lastOrder.symbol = candidates[1].symbol
    /\ lastOrder.symbol \notin DOMAIN positions
    /\ cand = 2
    /\ cand <= Len(candidates)
    /\ tradesExecuted = 0
    /\ remainingBuyingPower = buyingPower

\* C23: calculateScore returns a totalScore within [0, 100] for every
\* combination of arguments, absent ones included, and every sub-score within
\* its bound: technical -25..25, momentum -40..40, fundamental 0..10,
\* sentiment -15..15, volatility 0..10.
C23_ScoreWithinBounds ==
    scored.called =>
        LET b == scored.result.breakdown
        IN  /\ scored.result.totalScore >= 0 /\ scored.result.totalScore <= 100
            /\ b.technical >= -25 /\ b.technical <= 25
            /\ b.momentum >= -40 /\ b.momentum <= 40
            /\ b.fundamental >= 0 /\ b.fundamental <= 10
            /\ b.sentiment >= -15 /\ b.sentiment <= 15
            /\ b.volatility >= 0 /\ b.volatility <= 10

\* a call whose sub-scores add up to more than 50, the momentum and the
\* volatility score cut at their bounds: the total is cut at 100
C23_Witness ==
    /\ scored.called
    /\ scored.result.rawScore > 50
    /\ scored.result.totalScore = 100
    /\ scored.result.breakdown.momentum = 40
    /\ scored.result.breakdown.volatility = 10
    /\ scored.volatilityData.volumeSpike > 20
    /\ scored.multiTimeframeData.present

\* C24: getAuthToken sends an authentication request only when neither the
\* memory nor token.json holds an unexpired token; a token the server issued
\* expires at issue time + expires_in - one minute; and every call made before
\* that expiry returns that token without a request.
C24_TokenReusedUntilExpiry ==
    [][lastAuth' # lastAuth =>
          /\ lastAuth'.requested => ~lastAuth'.memoryValid /\ ~lastAuth'.fileValid
          /\ lastAuth'.source = "server" =>
                 /\ tokenExpiry' = lastAuth'.time + lastAuth'.expires_in - TokenBuffer
                 /\ accessToken' = lastAuth'.returned
          /\ (issued.count > 0 /\ now < issued.time + issued.expires_in - TokenBuffer) =>
                 /\ ~lastAuth'.requested
                 /\ lastAuth'.returned = issued.token
                 /\ issued' = issued]_vars

\* a call two minutes after the server issued a token valid for five, answered
\* from memory with that token, in a process that found an expired token.json
C24_Witness ==
    /\ lastAuth.called
    /\ lastAuth.source = "memory"
    /\ issued.count = 1
    /\ lastAuth.returned = issued.token
    /\ lastAuth.time = issued.time + 2
    /\ issued.expires_in = 5
    /\ tokenFile.token = issued.token

\* C25: a getMarketRegime call made less than 5 minutes after the analysis that
\* filled the cache returns the cached snapshot without a fetch and leaves the
\* cache alone; a call made 5 minutes or more after it analyses the market
\* again and caches the new snapshot with the time of the call.
C25_SnapshotCachedFiveMinutes ==
    [][(lastRegime' # lastRegime /\ cache.filled) =>
          IF now - cache.lastUpdate < 5
          THEN /\ lastRegime'.source = "cache"
               /\ lastRegime'.regime = cache.regime
               /\ ~lastRegime'.vixFailed /\ ~lastRegime'.spyFailed
               /\ cache' = cache
          ELSE /\ lastRegime'.source = "fresh"
               /\ cache'.filled
               /\ cache'.lastUpdate = now
               /\ cache'.regime = lastRegime'.regime]_vars

\* a snapshot taken at the start of the run, returned from the cache four
\* minutes later
C25_Witness ==
    /\ lastRegime.called
    /\ lastRegime.source = "cache"
    /\ cache.lastUpdate = boot
    /\ lastRegime.time = boot + 4
    /\ lastRegime.regime = cache.regime

\* a snapshot taken at the start of the run, replaced by a call five minutes later
C25_WitnessRecomputed ==
    /\ lastRegime.called
    /\ lastRegime.source = "fresh"
    /\ lastRegime.time = boot + 5
    /\ cache.lastUpdate = boot + 5

\* C26: in manageExistingPositions checkSellSignal is consulted for a holding
\* only when updatePrice returned HOLD for it; a holding whose stop-loss,
\* trailing stop or take-profit fired gets no signal-based sell; and at most
\* one SELL order is placed for a holding in a cycle.
C26_SignalSellOnlyOnHold ==
    /\ managed.consulted => managed.action = "HOLD"
    /\ managed.reason = "SIGNAL_SELL" => managed.action = "HOLD"
    /\ (managed.called /\ managed.action \notin {"HOLD", ""}) =>
           /\ managed.action \in {"STOP_LOSS", "TRAILING_STOP"}
                                     \cup {TakeProfitAction(k) : k \in {1, 2, 3}}
           /\ managed.sell => managed.reason = managed.action
    /\ \A s \in Symbols : sellOrders[s] <= 1

\* a cycle over two holdings: the first one was sold and its record removed,
\* the second one was held by updatePrice and sold on the signal; one SELL
\* order each
C26_Witness ==
    /\ pc = "manage"
    /\ idx = 3
    /\ managed.action = "HOLD" /\ managed.consulted /\ managed.reason = "SIGNAL_SELL"
    /\ lastOrder.side = "SELL" /\ lastOrder.reason = "SIGNAL_SELL"
    /\ \A s \in Symbols : sellOrders[s] = 1
    /\ \E s \in Symbols : s # managed.symbol /\ s \notin DOMAIN positions

C28_FailureSkipsOneSymbol ==
    [][/\ (pc = "manage" /\ (idx' # idx \/ pc' # pc)) =>
              IF idx <= Len(holdings)
              THEN idx' = idx + 1 /\ pc' = "manage" /\ holdings' = holdings /\ isTrading'
              ELSE \/ pc' = "filter" /\ isTrading'
                   \/ pc' = "idle" /\ lastExit' # "threw"
       /\ (pc = "trade" /\ (cand' # cand \/ pc' # pc)) =>
              IF cand <= Len(candidates) /\ tradesExecuted < MaxTradesPerCycle
              THEN cand' = cand + 1 /\ pc' = "trade" /\ candidates' = candidates
                   /\ isTrading'
              ELSE pc' = "idle" /\ lastExit' = "completed"]_vars

\* a cycle in which no quote came for the holding: the cycle went on to
\* analyzeAndTrade, the first candidate was not bought, the second one was
\* analysed and bought
C28_Witness ==
    /\ pc = "trade"
    /\ managed.called /\ managed.symbol = "MSFT" /\ managed.action = ""
    /\ Len(candidates) = 2
    /\ cand = 3
    /\ candidates[1].symbol \notin DOMAIN positions
    /\ lastOrder.symbol = candidates[2].symbol /\ lastOrder.side = "BUY" /\ lastOrder.ok
    /\ tradesExecuted = 1

\* C29: every call of Trader.start ends with isTrading = false; the restart
\* loop begins a further pass only after a pass in which a trade was executed
\* and ends after the first pass without one.
C29_RestartLoopEnds ==
    /\ [][(trader.pc = "passEnd" /\ trader'.pc = "balance") => trader.traded]_vars
    /\ [][(trader.pc = "passEnd" /\ ~trader.traded /\ trader' # trader) =>
              ~trader'.isTrading]_vars
    /\ (trader.isTrading ~> ~trader.isTrading)

\* C30: in filterByVolatility at most 20 fetches are in flight, all of one
\* batch; a batch starts only when no fetch of the batch before it is in
\* flight; and while a fetch is in flight no position record, no position
\* file and no buying-power counter changes.
C30_FetchesInBoundedBatches ==
    [][/\ filterState'.inFlight <= 20
       /\ filterState'.inFlight > filterState.inFlight =>
              /\ filterState.inFlight = 0
              /\ filterState'.inFlight = Len(SubSeq(Tickers, FilterOf.i, Len(Tickers)))
                 \/ filterState'.inFlight = 20
       /\ (filterState.inFlight > 0 \/ filterState'.inFlight > 0) =>
              /\ pc = "filter" /\ pc' = "filter"
              /\ positions' = positions /\ disk' = disk
              /\ buyingPower' = buyingPower
              /\ remainingBuyingPower' = remainingBuyingPower
              /\ tradesExecuted' = tradesExecuted
              /\ broker' = broker]_vars

\* the second batch of a cycle that sold its holding: the three tickers after
\* the first twenty, two of them still in flight, after a full first batch
C30_Witness ==
    /\ pc = "filter"
    /\ filterState.cycle = cycles
    /\ filterState.batches = 2
    /\ filterState.inFlight = 2
    /\ filterState.results = 21
    /\ "MSFT" \notin DOMAIN positions

(***************************************************************************)
(* Properties of position sizing, of the recommendation and of the         *)
(* watermarks                                                              *)
(***************************************************************************)
\* C31: calculatePositionSize takes the score tier (score >= 90: 5 %, >= 80:
\* 4 %, >= 70: 3 %, >= 60: 2 %, else 1 %) times the regime multiplier, times
\* 0.5 if ATR% > 5 or 0.75 if ATR% > 3, clamps it to [1 %, 5 %] and returns
\* quantity = max(1, floor(totalCapital x percent / 100 / price)); of two calls
\* that differ in the score alone the one with the higher score returns at
\* least the quantity of the other.
C31_QuantityFromScoreTier ==
    [][(sized'.called /\ sized'.currentPrice > 0 /\ sized'.totalCapital > 0) =>
        LET s == sized'
            tier == IF s.score >= 90 THEN 5
                    ELSE IF s.score >= 80 THEN 4
                    ELSE IF s.score >= 70 THEN 3
                    ELSE IF s.score >= 60 THEN 2
                    ELSE 1
            quarters == IF s.atr * 100 > 5 * s.currentPrice THEN 2
                        ELSE IF s.atr * 100 > 3 * s.currentPrice THEN 3
                        ELSE 4
            \* percent in 1/4000 percent: the multiplier is in thousandths
            raw == tier * s.regimeMultiplier * quarters
            percent == IF raw < 4000 THEN 4000 ELSE IF raw > 20000 THEN 20000 ELSE raw
        IN  /\ s.result.quantity =
                   Max(1, (s.totalCapital * percent) \div (400000 * s.currentPrice))
            /\ (/\ sized.called
                /\ sized.totalCapital = s.totalCapital
                /\ sized.currentPrice = s.currentPrice
                /\ sized.regimeMultiplier = s.regimeMultiplier
                /\ sized.atr = s.atr
                /\ sized.score <= s.score)
               => sized.result.quantity <= s.result.quantity]_vars

\* a score of 80 in a strong regime (x 1.44) with an ATR above 5 % of the
\* price: 4 % x 1.44 x 0.5 = 2.88 % of 10,000 buys two shares of 100
C31_Witness ==
    /\ sized.called
    /\ sized.score = 80
    /\ sized.regimeMultiplier = 1440
    /\ sized.atr * 100 > 5 * sized.currentPrice
    /\ sized.totalCapital = 10000
    /\ sized.currentPrice = 100
    /\ sized.result.quantity = 2

\* C32: getRecommendation maps every normalized score in 0..100 to exactly one
\* label: >= 75 STRONG_BUY, 60..74 BUY, <= 10 STRONG_SELL, 11..25 SELL,
\* otherwise HOLD; checkSellSignal answers shouldSell only for a score <= 25.
C32_LabelsPartitionScores ==
    /\ advised.op = "getRecommendation" =>
        /\ (advised.recommendation = "STRONG_BUY") <=> (advised.score >= 75)
        /\ (advised.recommendation = "BUY")
               <=> (advised.score >= 60 /\ advised.score <= 74)
        /\ (advised.recommendation = "STRONG_SELL") <=> (advised.score <= 10)
        /\ (advised.recommendation = "SELL")
               <=> (advised.score >= 11 /\ advised.score <= 25)
        /\ (advised.recommendation = "HOLD")
               <=> (advised.score >= 26 /\ advised.score <= 59)
    /\ (advised.op = "checkSellSignal" /\ advised.shouldSell) =>
        /\ advised.scoredIt
        /\ advised.score <= 25

\* checkSellSignal sold on a SELL recommendation of score 11..25 whose
\* confidence reaches 70
C32_Witness ==
    /\ advised.op = "checkSellSignal"
    /\ advised.shouldSell
    /\ advised.recommendation = "SELL"
    /\ advised.score > 10
    /\ advised.confidence >= 70

\* C33: over every sequence of updatePrice calls on a position highestPrice
\* never decreases and lowestPrice never increases, and after each call
\* lowestPrice <= entryPrice <= highestPrice and lowestPrice <= the price just
\* given <= highestPrice.
C33_WatermarksMonotonic ==
    [][(last'.op = "updatePrice" /\ last'.symbol \in DOMAIN positions) =>
        LET s == last'.symbol
            before == positions[s]
            after == positions'[s]
        IN  /\ s \in DOMAIN positions'
            /\ after.highestPrice >= before.highestPrice
            /\ after.lowestPrice <= before.lowestPrice
            /\ after.lowestPrice <= after.entryPrice
            /\ after.entryPrice <= after.highestPrice
            /\ after.lowestPrice <= last'.price
            /\ last'.price <= after.highestPrice]_vars

\* a position that rose to 110 and fell to 97 got 98 as its latest price: both
\* watermarks are away from the entry price and from the latest price
C33_Witness ==
    /\ last.op = "updatePrice"
    /\ last.symbol \in DOMAIN positions
    /\ last.price = 98
    /\ positions[last.symbol].highestPrice = 110
    /\ positions[last.symbol].lowestPrice = 97
    /\ positions[last.symbol].entryPrice = 100

\* C34: updatePrice(symbol, price) leaves symbol, entryPrice, quantity, score
\* and entryTime of the position unchanged and every other position's record
\* unchanged; on a symbol with no record it returns null and changes nothing.
C34_UpdatePriceFrame ==
    [][last'.op = "updatePrice" =>
        LET s == last'.symbol
        IN  IF s \in DOMAIN positions
            THEN /\ DOMAIN positions' = DOMAIN positions
                 /\ positions'[s].symbol = positions[s].symbol
                 /\ positions'[s].entryPrice = positions[s].entryPrice
                 /\ positions'[s].quantity = positions[s].quantity
                 /\ positions'[s].score = positions[s].score
                 /\ positions'[s].entryTime = positions[s].entryTime
                 /\ \A o \in DOMAIN positions \ {s} : positions'[o] = positions[o]
            ELSE /\ last'.action = NullResult.action
                 /\ positions' = positions
                 /\ disk' = disk]_vars

\* updatePrice raised the stop of AAPL to break-even while MSFT, held as well,
\* keeps the trailing stop an earlier price of 110 gave it
C34_Witness ==
    /\ last.op = "updatePrice"
    /\ last.symbol = "AAPL"
    /\ last.price = 101
    /\ DOMAIN positions = {"AAPL", "MSFT"}
    /\ positions["AAPL"].currentStopLoss > positions["AAPL"].entryPrice * 1000
    /\ ~positions["AAPL"].trailingStopActive
    /\ positions["MSFT"].trailingStopActive
    /\ positions["MSFT"].highestPrice = 110

(***************************************************************************)
(* Properties of the cycle under the regime, of the stops and of the buys  *)
(***************************************************************************)
\* C35: the orders of a cycle respect the permissions of the regime obtained
\* at cycle start: no BUY order when allowBuy is false, no SELL order when
\* allowSell is false, and when both are false the cycle ends at once, placing
\* no order and mutating no position record.
C35_OrdersRespectRegime ==
    [][/\ lastOrder'.side = "BUY" => regime'.allowBuy
       /\ lastOrder'.side = "SELL" => regime'.allowSell
       /\ (pc = "regime" /\ pc' # "regime" /\ ~regime'.allowBuy /\ ~regime'.allowSell)
          => /\ pc' = "idle"
             /\ ~isTrading'
             /\ lastOrder' = NoOrder
             /\ UNCHANGED <<positions, disk, broker, bought>>]_vars

\* a regime that forbids buys and allows sells: the first take-profit tier of
\* a holding was sold
C35_Witness ==
    /\ ~regime.allowBuy
    /\ regime.allowSell
    /\ pc = "manage"
    /\ lastOrder.side = "SELL"
    /\ lastOrder.ok
    /\ lastOrder.reason = "TAKE_PROFIT_L1"

\* C36: in every state reachable by addPosition and updatePrice,
\* trailingStopActive implies currentStopLoss >= highestPrice x (1 - 1.5 %) and
\* currentStopLoss > entryPrice, also after updates whose return is below the
\* +2 % activation threshold.
C36_TrailingFloorFollowsHigh ==
    \A s \in DOMAIN positions :
        positions[s].trailingStopActive =>
            /\ positions[s].currentStopLoss
                   >= positions[s].highestPrice * (1000 - 15)
            /\ positions[s].currentStopLoss > positions[s].entryPrice * 1000

\* the trailing stop was activated at 110; the update now given, 101, is below
\* the activation threshold and the floor is still 1.5 % under 110
C36_Witness ==
    /\ last.op = "updatePrice"
    /\ last.symbol \in DOMAIN positions
    /\ last.price = 101
    /\ positions[last.symbol].trailingStopActive
    /\ positions[last.symbol].highestPrice = 110
    /\ positions[last.symbol].currentStopLoss = 108350

\* C37: an updatePrice call on a position whose trailingStopActive is false
\* never returns TRAILING_STOP: after the break-even move has raised
\* currentStopLoss to entryPrice x 1.001, a price at or below currentStopLoss
\* yields HOLD while it is above the -3 % stop-loss level, and STOP_LOSS at a
\* return <= -3 %.
C37_NoTrailingStopWhileInactive ==
    [][(/\ last'.op = "updatePrice"
        /\ last'.symbol \in DOMAIN positions
        /\ ~positions[last'.symbol].trailingStopActive) =>
        LET pos == positions[last'.symbol]
            price == last'.price
        IN  /\ last'.action # "TRAILING_STOP"
            /\ (/\ pos.currentStopLoss = pos.entryPrice * 1001
                /\ price * 1000 <= pos.currentStopLoss)
               => IF (price - pos.entryPrice) * 100 <= -3 * pos.entryPrice
                  THEN last'.action = "STOP_LOSS"
                  ELSE /\ last'.action = "HOLD"
                       /\ last'.symbol \in DOMAIN positions'
                       /\ ~positions'[last'.symbol].trailingStopActive]_vars

\* the stop stands at break-even (100.1) and the price given is 98: HOLD
C37_Witness ==
    /\ last.op = "updatePrice"
    /\ last.price = 98
    /\ last.action = "HOLD"
    /\ last.symbol \in DOMAIN positions
    /\ positions[last.symbol].currentStopLoss = positions[last.symbol].entryPrice * 1001
    /\ ~positions[last.symbol].trailingStopActive
    /\ positions[last.symbol].highestPrice = 101

\* C38: when the SELL order for a STOP_LOSS or TRAILING_STOP fails, the
\* position record and the holding are kept, and the next updatePrice for the
\* symbol, at an unchanged price, returns the same exit action, so that the
\* same SELL is ordered again; after a failed take-profit SELL the next
\* updatePrice at an unchanged price does not return that level again.
C38_FailedExitRetried ==
    [][(pc = "manage" /\ idx' = idx + 1 /\ managed'.action # "") =>
        LET holding == holdings[idx]
            s == holding.symbol
            before == attempts[s]
            exits == {"STOP_LOSS", "TRAILING_STOP"}
            repeated == /\ before.sell
                        /\ ~before.ok
                        /\ attempts'[s].price = before.price
        IN  /\ (lastOrder'.side = "SELL" /\ ~lastOrder'.ok
                /\ lastOrder'.reason \in exits)
               => /\ s \in DOMAIN positions'
                  /\ broker' = broker
            /\ (repeated /\ before.action \in exits)
               => /\ managed'.action = before.action
                  /\ lastOrder'.side = "SELL"
                  /\ lastOrder'.symbol = s
                  /\ lastOrder'.reason = before.action
                  /\ lastOrder'.qty = holding.qty
            /\ (repeated /\ LevelOf(before.action) # 0)
               => /\ managed'.action # before.action
                  /\ lastOrder'.reason # before.action]_vars

\* the TRAILING_STOP sell at a quote of 105 failed in the first cycle; the
\* second cycle has the holding and its record again and is about to manage it
C38_Witness ==
    /\ cycles = 2
    /\ pc = "manage"
    /\ idx = 1
    /\ Len(holdings) = 1
    /\ holdings[1].symbol = "MSFT"
    /\ attempts["MSFT"] = [price |-> 105, action |-> "TRAILING_STOP", sell |-> TRUE,
                           ok |-> FALSE]
    /\ "MSFT" \in DOMAIN positions
    /\ positions["MSFT"].trailingStopActive
    /\ broker["MSFT"] = 20

(***************************************************************************)
(* Properties of the buys of one pass and of the take-profit levels        *)
(***************************************************************************)
\* C39: one pass of analyzeAndTrade books at most three accepted BUY orders;
\* it places no BUY for a symbol of the holdings read at the start of the
\* cycle and none for a symbol it has bought already, so that the symbols
\* bought (the candidates examined that have a record and were not held, in a
\* pass entered without records) are as many as the buys; and the iteration that has a BUY accepted
\* ends with the record addPosition makes for that symbol: the quantity of the
\* order, the candidate's price and the score of the analysis that sized it.
C39_BuysOfOnePass ==
    [][(pc = "trade" /\ pc' = "trade" /\ cand' # cand) =>
          LET candidate == candidates[cand]
              symbol == candidate.symbol
              buy == lastOrder'.side = "BUY"
              accepted == buy /\ lastOrder'.ok
              examined == {candidates[i].symbol : i \in 1..cand}
              held == {holdings[i].symbol : i \in 1..Len(holdings)}
          IN  /\ tradesExecuted' <= 3
              /\ tradesExecuted' = tradesExecuted + (IF accepted THEN 1 ELSE 0)
              /\ Cardinality((examined \cap DOMAIN positions') \ held) = tradesExecuted'
              /\ buy => /\ lastOrder'.symbol = symbol
                        /\ lastOrder'.qty > 0
                        /\ symbol \notin held
                        /\ \A i \in 1..(cand - 1) : candidates[i].symbol # symbol
              /\ accepted =>
                     /\ cand' = cand + 1
                     /\ bought'[symbol] = lastOrder'.qty
                     /\ symbol \in DOMAIN positions'
                     /\ positions'[symbol].symbol = symbol
                     /\ positions'[symbol].quantity = lastOrder'.qty
                     /\ positions'[symbol].entryPrice = candidate.price
                     /\ \E analysis \in Analyses :
                            /\ analysis.recommendation \in {"STRONG_BUY", "BUY"}
                            /\ positions'[symbol].score = analysis.score
                            /\ lastOrder'.qty =
                                   BuyDecision(candidate, analysis, holdings,
                                       TotalCapital(buyingPower, holdings),
                                       remainingBuyingPower,
                                       regime.positionSizeMultiplier).qty
              /\ ~accepted => positions' = positions]_vars

\* three buys are booked while a candidate is left; the first candidate was
\* held at the start of the cycle and has no record
C39_Witness ==
    /\ pc = "trade"
    /\ tradesExecuted = 3
    /\ cand <= Len(candidates)
    /\ lastOrder.side = "BUY"
    /\ lastOrder.ok
    /\ AlreadyHeld(holdings, candidates[1].symbol)
    /\ candidates[1].symbol \notin DOMAIN positions
    /\ Cardinality(DOMAIN positions) = 3
    /\ \E s \in DOMAIN positions : positions[s].score = 65
    /\ \E s \in DOMAIN positions : positions[s].score = 90

====
